---------------------------- MODULE Spec2Model ----------------------------
(***************************************************************************)
(* A model of the event-detection and dispatch pipeline of the Solana      *)
(* sniper bot: the pool-event decoder (dex_monitor.rs decode_transaction), *)
(* the chain log watcher with its fetch retry loop                         *)
(* (DexMonitor::monitor_raydium_onchain), the socket feed monitor          *)
(* (WebSocketMonitor) and the bus shared by all of them                    *)
(* (DexWebSocketManager: a tokio mpsc channel whose receiver sits behind   *)
(* an Arc<Mutex<..>>).                                                     *)
(*                                                                         *)
(* Rust indexes from 0 and TLA+ sequences from 1: Index(s, i) reads the    *)
(* Rust element s[i].                                                      *)
(***************************************************************************)
EXTENDS Integers, Sequences, FiniteSets, TLC

(***************************************************************************)
(* Bounds of the model.                                                    *)
(***************************************************************************)
\* Longest instruction list of a modelled transaction.
MaxInstr == 2
\* Longest account list of a modelled instruction.
MaxAccounts == 11
\* Latest clock reading (seconds since the epoch, scaled).
MaxClock == 2

(***************************************************************************)
(* Program constants.                                                      *)
(***************************************************************************)
\* dex_monitor.rs:18
RAYDIUM_LIQUIDITY_POOL_V4_PROGRAM_ID == "675kPX9MHTjS2zt1qfr1NYHuzeLXfQM9H24wFSUt1Mp8"
\* dex_monitor.rs:17, the literal of the commented-out variant: some other program.
OTHER_PROGRAM_ID == "675kPX9MHTjS2zt1qfr1NYHuzeNSfTFE9yPZVvTZ6Qko"
\* dex_monitor.rs:255, `accounts.len() > 9`
MIN_ACCOUNTS_EXCLUSIVE == 9
\* dex_monitor.rs:257-259, the positions of the pool and of the two tokens
POOL_INDEX == 4
TOKEN_A_INDEX == 8
TOKEN_B_INDEX == 9

(***************************************************************************)
(* Values of the decoder's input type,                                     *)
(* EncodedConfirmedTransactionWithStatusMeta.                              *)
(***************************************************************************)
\* EncodedTransaction::Json, and "Binary" for each of the variants that hold
\* no message to look into (LegacyBinary, Binary, Accounts), which line 301
\* treats alike.
Encodings == {"Json", "Binary"}
\* UiMessage::{Parsed, Raw}
MessageKinds == {"Parsed", "Raw"}
\* UiInstruction::Compiled, UiInstruction::Parsed(UiParsedInstruction::Parsed),
\* UiInstruction::Parsed(UiParsedInstruction::PartiallyDecoded)
InstructionForms == {"Compiled", "Parsed", "PartiallyDecoded"}
ProgramIds == {RAYDIUM_LIQUIDITY_POOL_V4_PROGRAM_ID, OTHER_PROGRAM_ID}

\* The address at Rust index i of the account list of the k-th instruction:
\* every position of every instruction holds an address of its own.
Address(k, i) == <<k, i>>
AccountList(k, n) == [j \in 1..n |-> Address(k, j - 1)]
\* Lengths from the threshold of line 255 on, and the empty list.
AccountLens == {0} \cup (MIN_ACCOUNTS_EXCLUSIVE..MaxAccounts)

InstructionsAt(k, forms) ==
    { [form |-> f, program_id |-> p, accounts |-> AccountList(k, n)] :
        f \in forms, p \in ProgramIds, n \in AccountLens }

RECURSIVE InstructionLists(_, _)
InstructionLists(n, forms) ==
    IF n = 0 THEN { <<>> }
    ELSE { Append(s, i) : s \in InstructionLists(n - 1, forms),
                          i \in InstructionsAt(n, forms) }

\* The instruction lists of up to max instructions that a message of kind m
\* can hold: a UiMessage::Raw holds compiled instructions only.
InstructionListsOf(m, max) ==
    UNION { InstructionLists(n, IF m = "Raw" THEN {"Compiled"} ELSE InstructionForms) :
              n \in 0..max }

\* A transaction in an encoding without a message: a blob.
BinaryTransaction ==
    [encoding |-> "Binary", message |-> "None", instructions |-> << >>]

\* The transactions of up to max instructions.
TransactionsOf(max) ==
    UNION { { [encoding |-> "Json", message |-> m, instructions |-> is] :
                is \in InstructionListsOf(m, max) } : m \in MessageKinds }
    \cup { BinaryTransaction }

(***************************************************************************)
(* decode_transaction, dex_monitor.rs:234-305.                             *)
(***************************************************************************)
\* The outcome of a Rust slice index: the element, or a panic when the index
\* is out of bounds (the empty tuple, which is no address).
PANIC == << >>
Index(s, i) == IF i < Len(s) THEN s[i + 1] ELSE PANIC

\* WebSocketMessage::PoolUpdate(PoolUpdate {..}), websocket_monitor.rs:20-27
PoolUpdate(pool_address, token_a, token_b, liquidity, volume_24h, timestamp) ==
    [type |-> "PoolUpdate", pool_address |-> pool_address, token_a |-> token_a,
     token_b |-> token_b, liquidity |-> liquidity, volume_24h |-> volume_24h,
     timestamp |-> timestamp]

\* A guard that lets a list of 9 accounts through (>= for >).
IsPoolInitInclusive(instruction) ==
    /\ instruction.program_id = RAYDIUM_LIQUIDITY_POOL_V4_PROGRAM_ID
    /\ Len(instruction.accounts) >= MIN_ACCOUNTS_EXCLUSIVE

\* The guard of line 255.
IsPoolInit(instruction) ==
    /\ instruction.program_id = RAYDIUM_LIQUIDITY_POOL_V4_PROGRAM_ID
    /\ Len(instruction.accounts) > MIN_ACCOUNTS_EXCLUSIVE

\* A stamp that goes into the liquidity as well.
StampedLiquidity(ts) == ts

\* Line 265: `liquidity: 0.0`, whatever the time of the decode.
Liquidity(ts) == 0

\* A decoder that takes the pool from position 5 instead of 4.
MakePoolUpdateShifted(instruction, ts) ==
    PoolUpdate(Index(instruction.accounts, POOL_INDEX + 1),
               Index(instruction.accounts, TOKEN_A_INDEX),
               Index(instruction.accounts, TOKEN_B_INDEX),
               0, 0, ts)

\* Lines 257-269: the event pushed for a partially decoded instruction that
\* passes the guard; ts is the reading of chrono::Utc::now() of line 267.
MakePoolUpdate(instruction, ts) ==
    PoolUpdate(Index(instruction.accounts, POOL_INDEX),
               Index(instruction.accounts, TOKEN_A_INDEX),
               Index(instruction.accounts, TOKEN_B_INDEX),
               Liquidity(ts), 0, ts)

\* A decoder that also takes the instructions that are not in partially
\* decoded form.
decode_instruction_any_form(instruction, ts) ==
    IF IsPoolInit(instruction)
    THEN << MakePoolUpdate(instruction, ts) >>
    ELSE << >>

\* Lines 250-290: what one instruction adds to pull_updates.
decode_instruction(instruction, ts) ==
    IF instruction.form = "PartiallyDecoded"
    THEN IF IsPoolInit(instruction)
         THEN << MakePoolUpdate(instruction, ts) >>
         ELSE << >>
    ELSE << >>

\* Lines 249-291: the loop over parsed_message.instructions; clock[k] is the
\* clock reading made while the k-th instruction is handled.
RECURSIVE decode_instructions(_, _, _)
decode_instructions(instructions, clock, k) ==
    IF k > Len(instructions) THEN << >>
    ELSE decode_instruction(instructions[k], clock[k])
            \o decode_instructions(instructions, clock, k + 1)

Panicked(events) ==
    \E k \in 1..Len(events) :
        PANIC \in {events[k].pool_address, events[k].token_a, events[k].token_b}

\* A decoder that answers a transaction in another encoding with Ok and no
\* event.
decode_transaction_lenient(fetched_tx, clock) ==
    [status |-> "Ok",
     events |-> IF fetched_tx.encoding = "Json" /\ fetched_tx.message = "Parsed"
                THEN decode_instructions(fetched_tx.instructions, clock, 1)
                ELSE << >>]

\* Lines 234-305: Result<Vec<WebSocketMessage>>, or the panic of an index out
\* of bounds.
decode_transaction(fetched_tx, clock) ==
    IF fetched_tx.encoding = "Json"
    THEN LET pull_updates ==
                 IF fetched_tx.message = "Parsed"
                 THEN decode_instructions(fetched_tx.instructions, clock, 1)
                 ELSE << >>
         IN  IF Panicked(pull_updates)
             THEN [status |-> "Panic", events |-> << >>]
             ELSE [status |-> "Ok", events |-> pull_updates]
    ELSE [status |-> "Err", events |-> << >>]

\* The readings a clock that never runs backwards can give to n reads made
\* from time t on.
RECURSIVE ClockReadings(_, _)
ClockReadings(t, n) ==
    IF n = 0 THEN { << >> }
    ELSE UNION { { <<u>> \o s : s \in ClockReadings(u, n - 1) } : u \in t..MaxClock }

\* The time after the reads: the clock stands at its last reading.
LastReading(t, clock) == IF clock = << >> THEN t ELSE clock[Len(clock)]

(***************************************************************************)
(* Bounds of the pipeline.                                                 *)
(***************************************************************************)
\* Log notifications the chain node delivers to the watcher on its own.
MaxLogs == 2
\* Log notifications the chain node delivers to the watcher of the whole
\* pipeline.
BusLogs == 1
\* Frames the feed endpoint delivers to the feed monitor.
MaxFrames == 2
\* Slots of the bus. The program creates it with mpsc::channel(1000)
\* (websocket_monitor.rs:165); the model scales the capacity down so that a
\* full bus is reached.
Capacity == 2
\* Wallets of the configuration (SniperConfig.wallets).
MaxWallets == 2
\* Worker threads of the runtime; #[tokio::main] (bin/cli.rs:61) starts one
\* per core of the machine.
MaxWorkers == 2
\* The calls of snipe_token and sell_token made on one bot through its API.
MaxCalls == 4

(***************************************************************************)
(* Program constants of the watcher.                                       *)
(***************************************************************************)
\* dex_monitor.rs:106
max_retries == 3
\* dex_monitor.rs:126, the factor of 2^retry_count in the retry sleep (ms)
RETRY_UNIT_MS == 100
\* dex_monitor.rs:183, the reconnect sleep (s)
RECONNECT_SECS == 5
\* bin/cli.rs:35, the default of WEBSOCKET_RECONNECT_DELAY_MS, which
\* WebSocketMonitor::new (websocket_monitor.rs:54-59) makes reconnect_delay
reconnect_delay_ms == 5000

VARIABLES
    \* the last reading of the wall clock (chrono::Utc::now().timestamp());
    \* a later reading is any time from it on
    now,
    \* the decoder on its own: the transaction, the result, the position, and
    \* the result of a second decode of the same transaction
    dtx, dres, dpc, dres2,
    \* the watcher task (monitor_raydium_onchain): position, the log entry at
    \* hand, the retry counter, the fetched transaction, the events of the
    \* transaction not yet published
    wpc, log_info, retry_count, fetched_tx, pull_updates,
    \* the log entries the chain node has still to deliver, and the watcher's
    \* history for the entry at hand: the outcomes of the get_transaction
    \* calls, the retry sleeps (ms), the decode calls and the events published
    logs_left, fetch_log, sleep_log, decode_log, sent_log,
    \* and the "Failed to send pool update" lines logged for the entry at hand
    err_log,
    \* the length (s) of the watcher's reconnect sleep in progress, 0 when it
    \* is not in that sleep
    backoff_secs,
    \* the feed monitor task (WebSocketMonitor::start_monitoring): position,
    \* the event being sent, the text frames the feed has still to deliver
    mpc, msg_out, frames_left,
    \* the length (ms) of the monitor's reconnect sleep in progress, 0 when it
    \* is not in that sleep
    mon_sleep_ms,
    \* the feed monitor given one known text frame: the frame (NONE when the
    \* feed delivers any frame), and the level of the line process_message
    \* logged for it (NONE when it logged nothing, or has not run)
    ftext, flog,
    \* the bus (DexWebSocketManager): the channel's queue, the parties that
    \* hold a guard of the receiver's mutex, the parties that hold a handle on
    \* the receiver
    message_queue, rx_guard, rx_handles,
    \* history of the bus, per producer: the events whose send completed, and
    \* the events that recv() handed to a reader, both in order; and the
    \* readers that have been handed an event
    published, received, takers,
    \* the configuration of the bot (SniperConfig): the auto_sell and
    \* anti_rug_check flags, the number of wallets, monitoring.enable_raydium;
    \* and the worker threads of the runtime the tasks are spawned on
    auto_sell, anti_rug_check, wallets, enable_raydium, worker_threads,
    \* the producer tasks start_monitoring has spawned
    spawned,
    \* the orchestrator (the loop of start_monitoring): position, the event
    \* last taken from the bus, the wallet of the snipe loop, and for that
    \* event the outcomes of the snipe_token calls and the levels of the lines
    \* logged
    opc, omsg, wallet_index, trade_log, olog,
    \* the outcomes of the send_new_pool_telegram_message calls, in order
    tg_log,
    \* the log entry receiver.recv() gave last, and the levels of the lines
    \* the watcher logged for it when it took it and when it fetched and
    \* decoded its transaction
    seen_entry, wlog,
    \* the bot's SniperState (self.state), and what the watcher had published
    \* and the receiver handed out when stop() first cleared is_running
    \* (<< >> before that)
    state, stop_mark

vars == << now, dtx, dres, dpc, dres2,
           wpc, log_info, retry_count, fetched_tx, pull_updates,
           logs_left, fetch_log, sleep_log, decode_log, sent_log, err_log, backoff_secs,
           mpc, msg_out, frames_left, mon_sleep_ms, ftext, flog,
           message_queue, rx_guard, rx_handles, published, received, takers,
           auto_sell, anti_rug_check, wallets, enable_raydium, worker_threads,
           spawned, opc, omsg, wallet_index, trade_log, olog, tg_log,
           seen_entry, wlog, state, stop_mark >>

decoderVars == << dtx, dres, dpc, dres2 >>
watcherVars == << wpc, log_info, retry_count, fetched_tx, pull_updates,
                  logs_left, fetch_log, sleep_log, decode_log, sent_log, err_log,
                  backoff_secs >>
monitorVars == << mpc, msg_out, frames_left, mon_sleep_ms, ftext, flog >>
busVars == << message_queue, rx_guard, rx_handles, published, received, takers >>
configVars == << auto_sell, anti_rug_check, wallets, enable_raydium, worker_threads >>
orchVars == << spawned, opc, omsg, wallet_index, trade_log, olog >>
traceVars == << tg_log, seen_entry, wlog >>
sniperVars == << state, stop_mark >>
botVars == << configVars, orchVars, traceVars, sniperVars >>

NONE == "None"

\* None of an Option whose Some holds a record (a log entry, a transaction, an
\* event).
NOTHING == << >>

(***************************************************************************)
(* The chain node, as the watcher sees it.                                 *)
(***************************************************************************)
\* What Signature::from_str rejects (line 101).
BAD_SIGNATURE == "not-base58"
\* The transactions behind the signatures of the modelled log entries.
Instruction(form, program_id, k, n) ==
    [form |-> form, program_id |-> program_id, accounts |-> AccountList(k, n)]

Chain ==
    [ sigTwoPools |->
        [encoding |-> "Json", message |-> "Parsed", instructions |->
            << Instruction("PartiallyDecoded", RAYDIUM_LIQUIDITY_POOL_V4_PROGRAM_ID,
                           1, MIN_ACCOUNTS_EXCLUSIVE + 2),
               Instruction("PartiallyDecoded", RAYDIUM_LIQUIDITY_POOL_V4_PROGRAM_ID,
                           2, MIN_ACCOUNTS_EXCLUSIVE + 1) >>],
      sigOnePool |->
        [encoding |-> "Json", message |-> "Parsed", instructions |->
            << Instruction("PartiallyDecoded", RAYDIUM_LIQUIDITY_POOL_V4_PROGRAM_ID,
                           1, MIN_ACCOUNTS_EXCLUSIVE + 2),
               Instruction("Parsed", OTHER_PROGRAM_ID, 2, 0) >>],
      sigNoPool |->
        [encoding |-> "Json", message |-> "Parsed", instructions |->
            << Instruction("PartiallyDecoded", RAYDIUM_LIQUIDITY_POOL_V4_PROGRAM_ID,
                           1, MIN_ACCOUNTS_EXCLUSIVE) >>],
      sigBinary |-> BinaryTransaction ]

Signatures == DOMAIN Chain

\* A log notification: its signature and whether one of its log lines
\* contains "initialize2" (line 99).
LogEntries ==
    [signature : Signatures \cup {BAD_SIGNATURE}, has_marker : BOOLEAN]

\* The tasks that hold a Sender of the bus and publish on it.
Producers == {"watcher", "feed"}

\* Ghost tag of an event on the bus: its producer and the producer's running
\* number.
Tagged(msg, src) ==
    [msg |-> msg, src |-> src, seq |-> Len(published[src]) + 1]

EventId(ev) == << ev.src, ev.seq >>

\* A channel without a bound.
CanSendAlways == TRUE

\* mpsc::Sender::send(..).await (dex_monitor.rs:142, websocket_monitor.rs:125,
\* 132, 139): completes once the queue has a free slot, and appends.
CanSend == Len(message_queue) < Capacity

\* A queue that takes the event at the front.
EnqueueFront(queue, ev) == << ev >> \o queue

\* Where send puts the event: at the back of the queue.
Enqueue(queue, ev) == Append(queue, ev)

Send(ev) ==
    /\ CanSend
    /\ message_queue' = Enqueue(message_queue, ev)
    /\ published' = [published EXCEPT ![ev.src] = Append(@, EventId(ev))]

(***************************************************************************)
(* The watcher, dex_monitor.rs:89-185.                                     *)
(***************************************************************************)
\* A watcher that sleeps after the end of a stream only, and subscribes again
\* at once when a subscribe fails.
ReconnectDelayStreamOnly(cause) ==
    IF cause = "stream_ended" THEN RECONNECT_SECS ELSE 0

\* Line 183: the sleep that follows both arms of the match of line 91, the
\* end of the stream (line 177) and the failed subscribe (lines 179-181).
ReconnectDelay(cause) == RECONNECT_SECS

\* Lines 91-96 and 179-181: PubsubClient::logs_subscribe.
WatcherSubscribe ==
    /\ wpc = "subscribe"
    /\ \E ok \in BOOLEAN :
          IF ok
          THEN /\ wpc' = "recv"
               /\ UNCHANGED backoff_secs
          ELSE /\ wpc' = "reconnect_sleep"
               /\ backoff_secs' = ReconnectDelay("subscribe_failed")
    /\ UNCHANGED << log_info, retry_count, fetched_tx, pull_updates,
                    logs_left, fetch_log, sleep_log, decode_log, sent_log, err_log >>
    /\ UNCHANGED << now, decoderVars, monitorVars, busVars >>
    /\ UNCHANGED botVars

\* An entry without the marker goes on to the fetch like any other.
IsCandidateAnyLog(entry) == entry.signature # BAD_SIGNATURE

\* An entry with an unparsable signature goes on to the fetch.
IsCandidateAnySignature(entry) == entry.has_marker

\* Lines 99 and 101: the entry has a log line that contains "initialize2",
\* and Signature::from_str parses its signature.
IsCandidate(entry) == entry.has_marker /\ entry.signature # BAD_SIGNATURE

\* A counter declared outside the loop over the log entries: it keeps the
\* failures of the earlier candidates.
SharedRetryCount == retry_count

\* Line 105: `let mut retry_count = 0`, made anew for every candidate.
FreshRetryCount == 0

\* Lines 98-107 and 169-176: receiver.recv() gives a log entry. An entry
\* without the marker or with an unparsable signature is dropped at once (the
\* entry at hand is then NONE again: log_info lives for one turn of the loop).
RecvStep(entry) ==
    /\ wpc = "recv"
    /\ logs_left > 0
    /\ logs_left' = logs_left - 1
    /\ fetch_log' = << >>
    /\ sleep_log' = << >>
    /\ decode_log' = 0
    /\ sent_log' = 0
    /\ err_log' = 0
    /\ IF IsCandidate(entry)
       THEN /\ log_info' = entry
            /\ retry_count' = FreshRetryCount
            /\ fetched_tx' = NOTHING
            /\ wpc' = "fetch"
       ELSE /\ log_info' = NOTHING
            /\ UNCHANGED << retry_count, fetched_tx >>
            /\ wpc' = "recv"
    /\ UNCHANGED << pull_updates, backoff_secs >>
    /\ UNCHANGED << now, decoderVars, monitorVars, busVars >>

\* Line 98: receiver.recv() gives any log entry.
WatcherRecv ==
    /\ \E entry \in LogEntries : RecvStep(entry)
    /\ UNCHANGED botVars

\* Lines 100, 102, 170 and 173-174: the lines logged when an entry is taken:
\* two debug lines for an entry without the marker, else the info line of
\* line 100 and then an info line for a signature that parses, an error line
\* for one that does not.
RecvLogLines(entry) ==
    IF ~entry.has_marker THEN << "debug", "debug" >>
    ELSE IF entry.signature = BAD_SIGNATURE THEN << "info", "error" >>
    ELSE << "info", "info" >>

\* WatcherRecv with the entry and the lines logged for it kept.
WatcherRecvLogged ==
    /\ \E entry \in LogEntries :
          /\ RecvStep(entry)
          /\ seen_entry' = entry
          /\ wlog' = RecvLogLines(entry)
    /\ UNCHANGED << configVars, orchVars, tg_log, sniperVars >>

\* A watcher whose task returns when the subscription ends.
WatcherStreamEndReturn ==
    /\ wpc = "recv"
    /\ wpc' = "returned"
    /\ UNCHANGED << log_info, retry_count, fetched_tx, pull_updates,
                    logs_left, fetch_log, sleep_log, decode_log, sent_log, err_log,
                    backoff_secs >>
    /\ UNCHANGED << now, decoderVars, monitorVars, busVars >>
    /\ UNCHANGED botVars

\* Line 98 and 177: receiver.recv() fails, the subscription has ended.
WatcherStreamEnd ==
    /\ wpc = "recv"
    /\ wpc' = "reconnect_sleep"
    /\ backoff_secs' = ReconnectDelay("stream_ended")
    /\ UNCHANGED << log_info, retry_count, fetched_tx, pull_updates,
                    logs_left, fetch_log, sleep_log, decode_log, sent_log, err_log >>
    /\ UNCHANGED << now, decoderVars, monitorVars, busVars >>
    /\ UNCHANGED botVars

\* A backoff that starts at 100 ms (2^(count-1) for 2^count).
RetryDelayFromUnit(count) == (2 ^ (count - 1)) * RETRY_UNIT_MS

\* Line 126: the sleep after the failure that made the counter retry_count.
RetryDelay(count) == (2 ^ count) * RETRY_UNIT_MS

\* A watcher that takes a decode error for the end of the subscription.
AfterFetchErrReconnects(tx, clock) ==
    LET res == decode_transaction(tx, clock)
    IN  /\ decode_log' = decode_log + 1
        /\ UNCHANGED << sent_log, err_log >>
        /\ pull_updates' = res.events
        /\ IF res.status = "Err"
           THEN /\ wpc' = "reconnect_sleep"
                /\ log_info' = NOTHING
                /\ fetched_tx' = NOTHING
           ELSE IF res.events # << >>
           THEN /\ wpc' = "send"
                /\ UNCHANGED log_info
                /\ fetched_tx' = tx
           ELSE /\ wpc' = "recv"
                /\ log_info' = NOTHING
                /\ fetched_tx' = NOTHING

\* Lines 132-168: what follows the retry loop once a transaction is fetched:
\* decode, and the first event to publish, if any.
AfterFetch(tx, clock) ==
    LET res == decode_transaction(tx, clock)
    IN  /\ decode_log' = decode_log + 1
        /\ UNCHANGED << sent_log, err_log >>
        /\ pull_updates' = res.events
        /\ IF res.status = "Panic"
           THEN /\ wpc' = "panicked"
                /\ UNCHANGED log_info
                /\ fetched_tx' = tx
           ELSE IF res.events # << >>
           THEN /\ wpc' = "send"
                /\ UNCHANGED log_info
                /\ fetched_tx' = tx
           ELSE /\ wpc' = "recv"
                /\ log_info' = NOTHING
                /\ fetched_tx' = NOTHING

\* A watcher that gives up on the first failed get_transaction.
FetchFailedNoRetry ==
    /\ retry_count' = retry_count + 1
    /\ UNCHANGED << fetched_tx, pull_updates, decode_log, sent_log, err_log, sleep_log >>
    /\ wpc' = "recv"
    /\ log_info' = NOTHING

\* Lines 117-128: a failed get_transaction.
FetchFailed ==
    /\ retry_count' = retry_count + 1
    /\ UNCHANGED << fetched_tx, pull_updates, decode_log, sent_log, err_log >>
    /\ IF retry_count + 1 >= max_retries
       THEN /\ wpc' = "recv"
            /\ log_info' = NOTHING
            /\ UNCHANGED sleep_log
       ELSE /\ wpc' = "retry_sleep"
            /\ UNCHANGED log_info
            /\ sleep_log' = Append(sleep_log, RetryDelay(retry_count + 1))

\* Lines 113-116: a successful get_transaction ends the loop.
FetchSucceeded ==
    /\ UNCHANGED << retry_count, sleep_log >>
    /\ \E clock \in ClockReadings(now, Len(Chain[log_info.signature].instructions)) :
          /\ AfterFetch(Chain[log_info.signature], clock)
          /\ now' = LastReading(now, clock)

\* Lines 109-130: one turn of the retry loop, a call of get_transaction.
FetchStep(ok) ==
    /\ wpc = "fetch"
    /\ retry_count < max_retries
    /\ fetch_log' = Append(fetch_log, IF ok THEN "ok" ELSE "err")
    /\ IF ok THEN FetchSucceeded ELSE FetchFailed /\ UNCHANGED now
    /\ UNCHANGED << logs_left, backoff_secs >>
    /\ UNCHANGED << decoderVars, monitorVars, busVars >>

\* Line 112: get_transaction returns Ok or Err.
WatcherFetch ==
    /\ \E ok \in BOOLEAN : FetchStep(ok)
    /\ UNCHANGED botVars

\* Lines 134 and 161: the arm of the match that decode_transaction's result
\* takes, which no reading of the clock changes.
DecodeStatus(tx) ==
    LET clock == CHOOSE c \in ClockReadings(now, Len(tx.instructions)) : TRUE
    IN  decode_transaction(tx, clock).status

\* Lines 119-125, 135, 162 and 166: the lines logged in a turn of the retry
\* loop and in what follows it: a warn line for a failure that is retried,
\* an error line and the debug line of the skip for the last failure; after
\* a fetch, the info line of the decoded events or the error line of a
\* decode error.
FetchLogLines(ok) ==
    IF ~ok
    THEN IF retry_count + 1 >= max_retries THEN << "error", "debug" >> ELSE << "warn" >>
    ELSE IF DecodeStatus(Chain[log_info.signature]) = "Err"
         THEN << "error" >> ELSE << "info" >>

\* WatcherFetch with the lines logged kept.
WatcherFetchLogged ==
    /\ \E ok \in BOOLEAN :
          /\ FetchStep(ok)
          /\ wlog' = wlog \o FetchLogLines(ok)
    /\ UNCHANGED << configVars, orchVars, tg_log, seen_entry, sniperVars >>

\* Line 126: std::thread::sleep returns.
WatcherRetrySleep ==
    /\ wpc = "retry_sleep"
    /\ wpc' = "fetch"
    /\ UNCHANGED << log_info, retry_count, fetched_tx, pull_updates,
                    logs_left, fetch_log, sleep_log, decode_log, sent_log, err_log,
                    backoff_secs >>
    /\ UNCHANGED << now, decoderVars, monitorVars, busVars >>
    /\ UNCHANGED botVars

\* The receiver of the channel is gone once every handle on it is dropped;
\* send(..).await then returns Err, also for a send that was waiting.
ReceiverClosed == rx_handles = {}

\* A watcher that gives up on the transaction when a send fails: the events
\* left are not sent.
SendFailedBreak ==
    /\ UNCHANGED << message_queue, published >>
    /\ err_log' = err_log + 1
    /\ wpc' = "recv"
    /\ pull_updates' = << >>
    /\ log_info' = NOTHING
    /\ fetched_tx' = NOTHING

\* Lines 142-144: a failed send is logged, and the loop body goes on with the
\* Telegram message of the same event.
SendFailed ==
    /\ UNCHANGED << message_queue, published >>
    /\ err_log' = err_log + 1
    /\ wpc' = "notify"
    /\ UNCHANGED << log_info, fetched_tx, pull_updates >>

\* Lines 137-144: sender_clone.send(pull_update).await for the next event.
WatcherSend ==
    /\ wpc = "send"
    /\ IF ReceiverClosed
       THEN SendFailed
       ELSE /\ Send(Tagged(Head(pull_updates), "watcher"))
            /\ wpc' = "notify"
            /\ UNCHANGED << log_info, fetched_tx, pull_updates, err_log >>
    /\ sent_log' = sent_log + 1
    /\ UNCHANGED << retry_count, logs_left, fetch_log, sleep_log, decode_log,
                    backoff_secs >>
    /\ UNCHANGED << now, decoderVars, monitorVars, rx_guard, rx_handles, received,
                    takers >>
    /\ UNCHANGED botVars

\* A watcher that goes back to the send with the same event.
WatcherNotifyResend ==
    /\ wpc = "notify"
    /\ wpc' = "send"
    /\ UNCHANGED << log_info, retry_count, fetched_tx, pull_updates,
                    logs_left, fetch_log, sleep_log, decode_log, sent_log, err_log,
                    backoff_secs >>
    /\ UNCHANGED << now, decoderVars, monitorVars, busVars >>
    /\ UNCHANGED botVars

\* A watcher whose task ends with the error of a failed Telegram call.
AfterNotifyPropagate(ok) ==
    IF ok
    THEN /\ pull_updates' = Tail(pull_updates)
         /\ IF Tail(pull_updates) # << >>
            THEN /\ wpc' = "send"
                 /\ UNCHANGED << log_info, fetched_tx >>
            ELSE /\ wpc' = "recv"
                 /\ log_info' = NOTHING
                 /\ fetched_tx' = NOTHING
    ELSE /\ wpc' = "returned"
         /\ UNCHANGED << pull_updates, log_info, fetched_tx >>

\* Lines 137 and 145-168: whatever send_new_pool_telegram_message returned,
\* the for loop takes the next event of the transaction, and after the last
\* the while-let is at receiver.recv() again.
AfterNotify(ok) ==
    /\ pull_updates' = Tail(pull_updates)
    /\ IF Tail(pull_updates) # << >>
       THEN /\ wpc' = "send"
            /\ UNCHANGED << log_info, fetched_tx >>
       ELSE /\ wpc' = "recv"
            /\ log_info' = NOTHING
            /\ fetched_tx' = NOTHING

\* Lines 145-147: `if let Err(e) = ..await { error!("{}", e) }`, the line
\* logged for the outcome of the call.
NotifyLogLine(ok) == IF ok THEN "none" ELSE "error"

\* Lines 145-147 and 137: the Telegram message of the event just published,
\* for either outcome of the call.
NotifyStep(ok) ==
    /\ wpc = "notify"
    /\ AfterNotify(ok)
    /\ UNCHANGED << retry_count, logs_left, fetch_log, sleep_log, decode_log,
                    sent_log, err_log, backoff_secs >>
    /\ UNCHANGED << now, decoderVars, monitorVars, busVars >>

\* Lines 145-147: the call returns Ok or Err.
WatcherNotify ==
    /\ \E ok \in BOOLEAN : NotifyStep(ok)
    /\ UNCHANGED botVars

\* WatcherNotify with the outcome of the call and the line logged for it
\* kept in tg_log.
WatcherNotifyLogged ==
    /\ \E ok \in BOOLEAN :
          /\ NotifyStep(ok)
          /\ tg_log' = Append(tg_log, [ok |-> ok, line |-> NotifyLogLine(ok)])
    /\ UNCHANGED << configVars, orchVars, seen_entry, wlog, sniperVars >>

\* Line 183: the 5 s sleep before the next subscribe.
WatcherReconnectSleep ==
    /\ wpc = "reconnect_sleep"
    /\ wpc' = "subscribe"
    /\ backoff_secs' = 0
    /\ UNCHANGED << log_info, retry_count, fetched_tx, pull_updates,
                    logs_left, fetch_log, sleep_log, decode_log, sent_log, err_log >>
    /\ UNCHANGED << now, decoderVars, monitorVars, busVars >>
    /\ UNCHANGED botVars

(***************************************************************************)
(* The feed monitor, websocket_monitor.rs:47-154.                          *)
(***************************************************************************)
\* websocket_monitor.rs:29-36
TokenListing(token_address, symbol, name, initial_liquidity, timestamp) ==
    [type |-> "TokenListing", token_address |-> token_address, symbol |-> symbol,
     name |-> name, initial_liquidity |-> initial_liquidity, timestamp |-> timestamp]

\* websocket_monitor.rs:38-45
PriceUpdate(token_address, price, price_change_24h, volume_24h, timestamp) ==
    [type |-> "PriceUpdate", token_address |-> token_address, price |-> price,
     price_change_24h |-> price_change_24h, volume_24h |-> volume_24h,
     timestamp |-> timestamp]

\* The payloads a feed sends as params.result.
FeedPayloads ==
    { PoolUpdate(Address(7, 4), Address(7, 8), Address(7, 9), 5, 6, 1),
      TokenListing(Address(8, 0), "SYM", "Name", 5, 1),
      PriceUpdate(Address(8, 0), 3, 1, 6, 1),
      [type |-> "Unshaped"] }

\* A text frame: whether it is JSON at all, whether it has params and
\* params.result, its params.method (NONE when missing or no string) and its
\* params.result.
Methods == {"poolUpdate", "tokenListing", "priceUpdate", "slotUpdate", NONE}

TextFrames ==
    [is_json : {TRUE}, has_params : {TRUE}, has_result : {TRUE},
     method : Methods, result : FeedPayloads]
    \cup
    [is_json : {TRUE}, has_params : BOOLEAN, has_result : {FALSE},
     method : {"poolUpdate"}, result : {NONE}]
    \cup
    [is_json : {FALSE}, has_params : {FALSE}, has_result : {FALSE},
     method : {NONE}, result : {NONE}]

\* Lines 122-147: the variant each recognized method deserializes into.
VariantOf(method) ==
    CASE method = "poolUpdate" -> "PoolUpdate"
      [] method = "tokenListing" -> "TokenListing"
      [] method = "priceUpdate" -> "PriceUpdate"
      [] OTHER -> NONE

\* Lines 117-153: the events process_message publishes for a text frame, at
\* most one.
process_message(text) ==
    IF /\ text.is_json
       /\ text.has_params
       /\ text.has_result
       /\ text.method # NONE
       /\ VariantOf(text.method) # NONE
       /\ text.result.type = VariantOf(text.method)
    THEN << text.result >>
    ELSE << >>

\* Lines 118-147: the arm of process_message a text frame ends in, in the
\* order of its tests.
FrameKind(text) ==
    CASE ~text.is_json -> "invalid_json"
      [] text.is_json /\ ~text.has_params -> "no_params"
      [] text.is_json /\ text.has_params /\ ~text.has_result -> "no_result"
      [] OTHER ->
           IF text.method = NONE THEN "no_method"
           ELSE IF VariantOf(text.method) = NONE THEN "unknown_method"
           ELSE IF text.result.type # VariantOf(text.method) THEN "bad_shape"
           ELSE "event"

\* Lines 118-152: the level of the line process_message logs for a frame that
\* ends in the arm `kind`, before any send: the warn! of line 145 is the only
\* one, the `if let` of lines 118-121, 124, 131 and 138 have no else.
LogLevel(kind) == IF kind = "unknown_method" THEN "warn" ELSE NONE

\* A monitor that treats a URL that does not parse like a failed connect.
MonitorStartRetries ==
    /\ mpc = "start"
    /\ \E ok \in BOOLEAN :
          IF ok
          THEN /\ mpc' = "connect"
               /\ UNCHANGED mon_sleep_ms
          ELSE /\ mpc' = "reconnect_sleep"
               /\ mon_sleep_ms' = reconnect_delay_ms
    /\ UNCHANGED << msg_out, frames_left, ftext, flog >>
    /\ UNCHANGED << now, decoderVars, watcherVars, busVars >>
    /\ UNCHANGED botVars

\* Line 63: Url::parse(&self.url)?, before the loop; a URL that does not parse
\* makes start_monitoring return Err.
MonitorStart ==
    /\ mpc = "start"
    /\ \E ok \in BOOLEAN :
          mpc' = IF ok THEN "connect" ELSE "returned"
    /\ UNCHANGED << msg_out, frames_left, mon_sleep_ms, ftext, flog >>
    /\ UNCHANGED << now, decoderVars, watcherVars, busVars >>
    /\ UNCHANGED botVars

\* A monitor that waits twice as long after a failed connect.
MonitorDelayDoubled(cause) ==
    IF cause = "connect_failed" THEN 2 * reconnect_delay_ms ELSE reconnect_delay_ms

\* Lines 71 and 97: tokio::time::sleep(self.reconnect_delay), whatever ended
\* the connection.
MonitorDelay(cause) == reconnect_delay_ms

\* Lines 65-66 and 93-97: connect_async.
MonitorConnect ==
    /\ mpc = "connect"
    /\ \E ok \in BOOLEAN :
          IF ok
          THEN /\ mpc' = "handshake"
               /\ UNCHANGED mon_sleep_ms
          ELSE /\ mpc' = "reconnect_sleep"
               /\ mon_sleep_ms' = MonitorDelay("connect_failed")
    /\ UNCHANGED << msg_out, frames_left, ftext, flog >>
    /\ UNCHANGED << now, decoderVars, watcherVars, busVars >>
    /\ UNCHANGED botVars

\* A monitor that reads on after a failed handshake.
AfterHandshakeIgnoreError(ok) == "read"

\* Lines 69-74: where send_subscription leaves the monitor.
AfterHandshake(ok) == IF ok THEN "read" ELSE "reconnect_sleep"

\* Lines 69-73: send_subscription; on failure sleep and connect again.
MonitorHandshake ==
    /\ mpc = "handshake"
    /\ \E ok \in BOOLEAN :
          /\ mpc' = AfterHandshake(ok)
          /\ mon_sleep_ms' = IF ok THEN mon_sleep_ms
                             ELSE MonitorDelay("handshake_failed")
    /\ UNCHANGED << msg_out, frames_left, ftext, flog >>
    /\ UNCHANGED << now, decoderVars, watcherVars, busVars >>
    /\ UNCHANGED botVars

\* Lines 77-80: process_message returns Ok(()) for a frame it publishes
\* nothing for, and the read loop takes the next frame.
AfterDrop == "read"

\* Lines 76-80 and 117-153: what the text frame arm does with a frame, up to
\* the tx.send of process_message.
HandleText(text) ==
    IF process_message(text) # << >>
    THEN /\ msg_out' = process_message(text)[1]
         /\ mpc' = "send"
         /\ UNCHANGED mon_sleep_ms
    ELSE /\ UNCHANGED msg_out
         /\ mpc' = AfterDrop
         /\ mon_sleep_ms' = IF AfterDrop = "read" THEN mon_sleep_ms
                            ELSE MonitorDelay("closed")

\* Lines 74-80: read.next() gives a text frame, any frame.
MonitorReadText ==
    /\ mpc = "read"
    /\ frames_left > 0
    /\ frames_left' = frames_left - 1
    /\ \E text \in TextFrames : HandleText(text)
    /\ UNCHANGED << ftext, flog >>
    /\ UNCHANGED << now, decoderVars, watcherVars, busVars >>
    /\ UNCHANGED botVars

\* Lines 74-80: read.next() gives the text frame ftext, and the line
\* process_message logs for it is kept.
MonitorReadKnownText ==
    /\ mpc = "read"
    /\ frames_left > 0
    /\ frames_left' = frames_left - 1
    /\ HandleText(ftext)
    /\ flog' = LogLevel(FrameKind(ftext))
    /\ UNCHANGED ftext
    /\ UNCHANGED << now, decoderVars, watcherVars, busVars >>
    /\ UNCHANGED botVars

\* Lines 81-91: a close frame, a transport error or the end of the stream
\* leaves the read loop; any other frame is ignored.
MonitorReadOther ==
    /\ mpc = "read"
    /\ \E frame \in {"Close", "Err", "End", "Binary"} :
          IF frame = "Binary"
          THEN /\ mpc' = "read"
               /\ UNCHANGED mon_sleep_ms
          ELSE /\ mpc' = "reconnect_sleep"
               /\ mon_sleep_ms' = MonitorDelay("closed")
    /\ UNCHANGED << msg_out, frames_left, ftext, flog >>
    /\ UNCHANGED << now, decoderVars, watcherVars, busVars >>
    /\ UNCHANGED botVars

\* Lines 125-127, 132-134, 139-141: tx.send(..).await inside process_message;
\* a failed send is logged, and process_message returns Ok(()).
MonitorSend ==
    /\ mpc = "send"
    /\ IF ReceiverClosed
       THEN UNCHANGED << message_queue, published >>
       ELSE Send(Tagged(msg_out, "feed"))
    /\ mpc' = "read"
    /\ msg_out' = NOTHING
    /\ UNCHANGED << frames_left, mon_sleep_ms, ftext, flog >>
    /\ UNCHANGED << now, decoderVars, watcherVars, rx_guard, rx_handles, received,
                    takers >>
    /\ UNCHANGED botVars

\* Lines 71 and 97: tokio::time::sleep(self.reconnect_delay) returns.
MonitorReconnectSleep ==
    /\ mpc = "reconnect_sleep"
    /\ mpc' = "connect"
    /\ mon_sleep_ms' = 0
    /\ UNCHANGED << msg_out, frames_left, ftext, flog >>
    /\ UNCHANGED << now, decoderVars, watcherVars, busVars >>
    /\ UNCHANGED botVars

(***************************************************************************)
(* The receiving side of the bus, websocket_monitor.rs:156-210.            *)
(***************************************************************************)
\* The orchestrator is the loop of SolanaSniperBot::start_monitoring
\* (lib.rs:376-407), which reads through the manager; a holder is any other
\* party that has the Arc handed out by get_message_receiver.
ORCHESTRATOR == "orchestrator"
Holders == {"holder"}
Readers == {ORCHESTRATOR} \cup Holders

\* Lines 198-200: get_message_receiver clones the Arc of the receiver, which
\* takes a manager to call it on.
get_message_receiver(h) ==
    /\ h \in Holders
    /\ h \notin rx_handles
    /\ ORCHESTRATOR \in rx_handles
    /\ rx_handles' = rx_handles \cup {h}
    /\ UNCHANGED << message_queue, rx_guard, published, received, takers >>
    /\ UNCHANGED << now, decoderVars, watcherVars, monitorVars >>
    /\ UNCHANGED botVars

\* A receiver handed out without its mutex.
LockGrantedAlways(r) == TRUE

\* Line 203: message_rx.lock().await is granted when no guard is out.
LockGranted(r) == rx_guard = {}

LockReceiver(r) ==
    /\ r \in rx_handles
    /\ r \notin rx_guard
    /\ LockGranted(r)
    /\ rx_guard' = rx_guard \cup {r}
    /\ UNCHANGED << message_queue, rx_handles, published, received, takers >>
    /\ UNCHANGED << now, decoderVars, watcherVars, monitorVars >>
    /\ UNCHANGED botVars

\* Lines 156-161: the manager and every clone of the Arc are dropped while the
\* producers, which are tasks of their own with a Sender each, run on: the
\* Receiver is dropped with the last handle, when no reader is inside
\* receive_message.
DropReceiver ==
    /\ rx_handles # {}
    /\ rx_guard = {}
    /\ rx_handles' = {}
    /\ UNCHANGED << message_queue, rx_guard, published, received, takers >>
    /\ UNCHANGED << now, decoderVars, watcherVars, monitorVars >>
    /\ UNCHANGED botVars

\* A recv() that returns the head and leaves it in the queue.
AfterRecvPeek(queue) == queue

\* Line 204: what recv() leaves in the queue after it has returned the head.
AfterRecv(queue) == Tail(queue)

\* Lines 204-205: rx_guard.recv().await returns the head of the queue, and the
\* guard is dropped.
RecvHead(r) ==
    /\ r \in rx_guard
    /\ message_queue # << >>
    /\ received' = [received EXCEPT ![Head(message_queue).src] =
                       Append(@, EventId(Head(message_queue)))]
    /\ message_queue' = AfterRecv(message_queue)
    /\ takers' = takers \cup {r}
    /\ rx_guard' = rx_guard \ {r}
    /\ UNCHANGED << rx_handles, published >>
    /\ UNCHANGED << now, decoderVars, watcherVars, monitorVars >>

\* receive_message by a reader whose handling of the event is not modelled.
Recv(r) ==
    /\ RecvHead(r)
    /\ UNCHANGED botVars

(***************************************************************************)
(* The orchestrator, lib.rs:342-410, and snipe_token, lib.rs:277-320.      *)
(***************************************************************************)
\* lib.rs:129-137: the SniperState that SolanaSniperBot::new makes.
InitialState ==
    [is_running |-> FALSE, total_trades |-> 0, successful_trades |-> 0,
     failed_trades |-> 0, total_profit |-> 0, last_snipe_time |-> 0,
     active_monitors |-> 0]

\* lib.rs:344-347: the SniperState once start_monitoring has set its flags.
RunningState == [InitialState EXCEPT !.is_running = TRUE, !.active_monitors = 1]

\* The manager's own Sender (websocket_monitor.rs:159, 165-168).
MANAGER == "manager"

\* The producer tasks that have ended: the watcher's loop has no exit, a feed
\* monitor ends when start_monitoring returns.
Ended ==
    {p \in spawned : \/ p = "watcher" /\ wpc \in {"returned", "panicked"}
                     \/ p = "feed" /\ mpc = "returned"}

\* A manager that hands out its Sender and keeps none.
LiveSendersOfProducers == spawned \ Ended

\* websocket_monitor.rs:159 and 207-209: the Senders of the channel that are
\* alive, the manager's message_tx and the clone each running producer got
\* from get_message_sender.
LiveSenders == {MANAGER} \cup (spawned \ Ended)

\* mpsc::Receiver::recv returns None when the queue is empty and every
\* Sender has been dropped.
BusClosed == message_queue = << >> /\ LiveSenders = {}

\* lib.rs:150-158: the feed monitors SolanaSniperBot::new registers with the
\* manager (add_monitor).
Registered == IF enable_raydium THEN {"feed"} ELSE {}

\* lib.rs:342-373: start_monitoring up to its loop. With enable_raydium it
\* spawns the watcher task on a clone of the manager's Sender, and nothing
\* else: start_all_monitors (websocket_monitor.rs:178-196), which would
\* spawn the registered monitors, has no caller.
StartMonitoring ==
    /\ opc = "start"
    /\ spawned' = IF enable_raydium THEN {"watcher"} ELSE {}
    /\ opc' = "recv"
    /\ state' = [state EXCEPT !.is_running = TRUE, !.active_monitors = 1]
    /\ UNCHANGED << omsg, wallet_index, trade_log, olog, traceVars, configVars,
                    stop_mark >>
    /\ UNCHANGED << now, decoderVars, watcherVars, monitorVars, busVars >>

\* A stop() that aborts the tasks start_monitoring spawned.
stopAbortsTasks ==
    /\ state' = [state EXCEPT !.is_running = FALSE, !.active_monitors = 0]
    /\ stop_mark' = IF state.is_running
                    THEN << Len(published["watcher"]), Len(received["watcher"]) >>
                    ELSE stop_mark
    /\ spawned' = {}
    /\ UNCHANGED << configVars, opc, omsg, wallet_index, trade_log, olog, traceVars >>
    /\ UNCHANGED << now, decoderVars, watcherVars, monitorVars, busVars >>

\* lib.rs:428-435: stop() takes the lock of the state and clears is_running
\* and active_monitors; it holds no handle of a task and no end of the
\* channel.
stop ==
    /\ state' = [state EXCEPT !.is_running = FALSE, !.active_monitors = 0]
    /\ stop_mark' = IF state.is_running
                    THEN << Len(published["watcher"]), Len(received["watcher"]) >>
                    ELSE stop_mark
    /\ UNCHANGED << configVars, orchVars, traceVars >>
    /\ UNCHANGED << now, decoderVars, watcherVars, monitorVars, busVars >>

\* The task of a producer exists from its tokio::spawn on.
Running(p) == p \in spawned

\* dex_monitor.rs:91, 98, 112, 126, 183: the calls of the watcher's task that
\* are not awaited but block the thread that polls the task:
\* PubsubClient::logs_subscribe, receiver.recv(), get_transaction and the two
\* std::thread::sleep. Its awaits are sender.send (line 142) and the Telegram
\* call (line 145); every wait of the feed monitor is an await.
BlockingCalls == {"subscribe", "recv", "fetch", "retry_sleep", "reconnect_sleep"}

\* The tasks that hold a worker thread of the runtime in a blocking call.
Blocked == {p \in spawned : p = "watcher" /\ wpc \in BlockingCalls}

\* A spawned task is polled by a worker thread: the one it holds in a blocking
\* call, or one that no task holds. (The orchestrator is the future of
\* block_on, polled by the main thread, bin/cli.rs:61.)
Runnable(p) ==
    /\ Running(p)
    /\ p \in Blocked \/ Cardinality(Blocked) < worker_threads

\* An orchestrator that leaves its loop after an event.
NextOfLoopBreak == "done"

\* lib.rs:376: the body of `loop` ends at its closing brace and starts again
\* with receive_message.
NextOfLoop == "recv"

\* lib.rs:377, websocket_monitor.rs:203: the orchestrator calls
\* receive_message and takes the mutex of the receiver.
OrchLock ==
    /\ opc = "recv"
    /\ LockReceiver(ORCHESTRATOR)

\* lib.rs:377-379 and 403-406, websocket_monitor.rs:204: recv() hands the
\* orchestrator the head of the queue, or None on a closed bus, which ends
\* the loop.
OrchRecv ==
    /\ opc = "recv"
    /\ ORCHESTRATOR \in rx_guard
    /\ IF message_queue # << >>
       THEN /\ RecvHead(ORCHESTRATOR)
            /\ omsg' = Head(message_queue).msg
            /\ opc' = "dispatch"
       ELSE /\ BusClosed
            /\ opc' = "done"
            /\ rx_guard' = rx_guard \ {ORCHESTRATOR}
            /\ UNCHANGED omsg
            /\ UNCHANGED << message_queue, rx_handles, published, received, takers >>
            /\ UNCHANGED << now, decoderVars, watcherVars, monitorVars >>
    /\ trade_log' = << >>
    /\ olog' = << >>
    /\ wallet_index' = 0
    /\ UNCHANGED << configVars, spawned, traceVars, sniperVars >>

\* An orchestrator that snipes on every event.
TradesOnAny(type) == TRUE

\* An orchestrator that snipes on a new pool.
TradesOnPool(type) == type = "PoolUpdate"

\* lib.rs:380-398: the arm of the match that holds the snipe loop.
TradesOn(type) == type = "TokenListing"

\* lib.rs:380-402: the match on the event; every arm logs one line, and the
\* arm of TradesOn enters the loop over the wallets when auto_sell is set.
OrchDispatch ==
    /\ opc = "dispatch"
    /\ olog' = << "info" >>
    /\ IF TradesOn(omsg.type) /\ auto_sell /\ wallets > 0
       THEN opc' = "snipe"
       ELSE opc' = NextOfLoop
    /\ UNCHANGED << omsg, wallet_index, trade_log >>
    /\ UNCHANGED << configVars, spawned, traceVars, sniperVars >>
    /\ UNCHANGED << now, decoderVars, watcherVars, monitorVars, busVars >>

\* lib.rs:283-286: what check_balance and the comparison with
\* max_sol_per_trade can come to.
BalanceResults == {"rpc_err", "insufficient", "enough"}

\* dex_monitor.rs:193-195 and 201-203: the bodies are unimplemented!(), a
\* panic.
get_jupiter_quote == "Panic"
get_token_metadata == "Panic"

\* lib.rs:250-254: analyze_token starts with get_token_metadata(..).await?.
analyze_token == get_token_metadata

\* lib.rs:277-320: snipe_token for a wallet of the list. An error of
\* check_balance or a balance below the amount returns Err; past that the
\* call reaches analyze_token when anti_rug_check is set, get_jupiter_quote
\* otherwise.
snipe_token(balance) ==
    IF balance \in {"rpc_err", "insufficient"} THEN "Err"
    ELSE IF anti_rug_check THEN analyze_token
    ELSE get_jupiter_quote

\* A snipe_token that counts a trade for a call that returns Err.
SnipeEffectCountsFailures(result) ==
    state' = IF result = "Ok"
             THEN [state EXCEPT !.total_trades = @ + 1,
                                !.successful_trades = @ + 1,
                                !.last_snipe_time = now]
             ELSE IF result = "Err"
             THEN [state EXCEPT !.total_trades = @ + 1, !.failed_trades = @ + 1]
             ELSE state

\* lib.rs:311-319: what a snipe_token call does to the SniperState. Only a
\* call that gets to the end takes the lock, counts the trade in
\* total_trades and in successful_trades and stamps last_snipe_time; every
\* `return Err`, `?` and panic comes before.
SnipeEffect(result) ==
    state' = IF result = "Ok"
             THEN [state EXCEPT !.total_trades = @ + 1,
                                !.successful_trades = @ + 1,
                                !.last_snipe_time = now]
             ELSE state

\* A snipe loop that is left at the first failed trade.
AfterTradeErrBreak(i) == "recv"

\* lib.rs:386-390: after an Err, logged at line 388, the for loop takes the
\* next wallet, and after the last the orchestrator is back at
\* receive_message.
AfterTradeErr(i) == IF i + 1 < wallets THEN "snipe" ELSE NextOfLoop

\* lib.rs:386-390: one turn of the snipe loop; a panic of snipe_token unwinds
\* through start_monitoring, which main awaits (bin/cli.rs:198).
OrchSnipe ==
    /\ opc = "snipe"
    /\ \E balance \in BalanceResults :
          IF snipe_token(balance) = "Panic"
          THEN /\ opc' = "panicked"
               /\ trade_log' = Append(trade_log, "Panic")
               /\ SnipeEffect("Panic")
               /\ UNCHANGED << wallet_index, olog >>
          ELSE /\ opc' = AfterTradeErr(wallet_index)
               /\ trade_log' = Append(trade_log, "Err")
               /\ SnipeEffect("Err")
               /\ olog' = Append(olog, "error")
               /\ wallet_index' = wallet_index + 1
    /\ UNCHANGED omsg
    /\ UNCHANGED << configVars, spawned, traceVars, stop_mark >>
    /\ UNCHANGED << now, decoderVars, watcherVars, monitorVars, busVars >>

\* lib.rs:323-339: sell_token for a wallet index. An index past the wallets
\* returns Err; any other call reaches get_jupiter_quote. No line of it
\* touches the SniperState.
sell_token(index) == IF index >= wallets THEN "Err" ELSE get_jupiter_quote

\* lib.rs:277-281 and bin/cli.rs:249-254: snipe_token called through the API
\* with any wallet index, an index past the wallets included.
SnipeCall ==
    /\ opc = "call"
    /\ Len(trade_log) < MaxCalls
    /\ \E index \in 0 .. MaxWallets, balance \in BalanceResults :
          LET result == IF index >= wallets THEN "Err" ELSE snipe_token(balance)
          IN  /\ trade_log' = Append(trade_log, [op |-> "snipe", result |-> result])
              /\ SnipeEffect(result)
              /\ opc' = IF result = "Panic" THEN "panicked" ELSE "call"
    /\ UNCHANGED << omsg, wallet_index, olog, spawned, configVars, traceVars, stop_mark >>
    /\ UNCHANGED << now, decoderVars, watcherVars, monitorVars, busVars >>

\* lib.rs:323-339: sell_token called through the API.
SellCall ==
    /\ opc = "call"
    /\ Len(trade_log) < MaxCalls
    /\ \E index \in 0 .. MaxWallets :
          /\ trade_log' = Append(trade_log, [op |-> "sell", result |-> sell_token(index)])
          /\ opc' = IF sell_token(index) = "Panic" THEN "panicked" ELSE "call"
    /\ UNCHANGED state
    /\ UNCHANGED << omsg, wallet_index, olog, spawned, configVars, traceVars, stop_mark >>
    /\ UNCHANGED << now, decoderVars, watcherVars, monitorVars, busVars >>

(***************************************************************************)
(* The pipeline.                                                           *)
(***************************************************************************)
\* lib.rs:116-168 and bin/cli.rs:21-22: the bot as the command line builds
\* it by default, its orchestrator at receive_message with both producers
\* running.
InitBot ==
    /\ auto_sell = TRUE
    /\ anti_rug_check = TRUE
    /\ wallets = 0
    /\ enable_raydium = TRUE
    /\ worker_threads = MaxWorkers
    /\ spawned = Producers
    /\ opc = "recv"
    /\ omsg = NOTHING
    /\ wallet_index = 0
    /\ trade_log = << >>
    /\ olog = << >>
    /\ tg_log = << >>
    /\ seen_entry = NOTHING
    /\ wlog = << >>
    /\ state = RunningState
    /\ stop_mark = << >>

InitProducers(logs, frames) ==
    /\ logs_left = logs
    /\ frames_left = frames
    /\ wpc = "subscribe"
    /\ log_info = NOTHING
    /\ retry_count = 0
    /\ fetched_tx = NOTHING
    /\ pull_updates = << >>
    /\ fetch_log = << >>
    /\ sleep_log = << >>
    /\ decode_log = 0
    /\ sent_log = 0
    /\ err_log = 0
    /\ backoff_secs = 0
    /\ mpc = "start"
    /\ msg_out = NOTHING
    /\ mon_sleep_ms = 0
    /\ flog = NONE
    /\ message_queue = << >>
    /\ rx_guard = {}
    /\ takers = {}
    /\ rx_handles = {ORCHESTRATOR}
    /\ published = [p \in Producers |-> << >>]
    /\ received = [p \in Producers |-> << >>]

InitPipeline(logs, frames) == InitProducers(logs, frames) /\ InitBot

\* The clock of the whole pipeline stands at its last modelled reading.
Init ==
    /\ now = MaxClock
    /\ dtx = NONE
    /\ dres = NONE
    /\ dres2 = NONE
    /\ dpc = "idle"
    /\ ftext = NONE
    /\ InitPipeline(BusLogs, MaxFrames)

Next ==
    \/ WatcherSubscribe
    \/ WatcherRecv
    \/ WatcherStreamEnd
    \/ WatcherFetch
    \/ WatcherRetrySleep
    \/ WatcherSend
    \/ WatcherNotify
    \/ WatcherReconnectSleep
    \/ MonitorStart
    \/ MonitorConnect
    \/ MonitorHandshake
    \/ MonitorReadText
    \/ MonitorReadOther
    \/ MonitorSend
    \/ MonitorReconnectSleep
    \/ \E h \in Holders : get_message_receiver(h)
    \/ \E r \in Readers : LockReceiver(r)
    \/ \E r \in Readers : Recv(r)

Spec == Init /\ [][Next]_vars

(***************************************************************************)
(* The watcher on its own, with the orchestrator draining the bus.         *)
(***************************************************************************)
InitWatcher ==
    /\ now = 1
    /\ dtx = NONE
    /\ dres = NONE
    /\ dres2 = NONE
    /\ dpc = "idle"
    /\ ftext = NONE
    /\ InitPipeline(MaxLogs, 0)

NextWatcher ==
    \/ WatcherSubscribe
    \/ WatcherRecv
    \/ WatcherStreamEnd
    \/ WatcherFetch
    \/ WatcherRetrySleep
    \/ WatcherSend
    \/ WatcherNotify
    \/ WatcherReconnectSleep
    \/ LockReceiver(ORCHESTRATOR)
    \/ Recv(ORCHESTRATOR)
    \/ DropReceiver

SpecWatcher == InitWatcher /\ [][NextWatcher]_vars

\* The watcher with the history of its Telegram calls.
NextNotify ==
    \/ WatcherSubscribe
    \/ WatcherRecv
    \/ WatcherStreamEnd
    \/ WatcherFetch
    \/ WatcherRetrySleep
    \/ WatcherSend
    \/ WatcherNotifyLogged
    \/ WatcherReconnectSleep
    \/ LockReceiver(ORCHESTRATOR)
    \/ Recv(ORCHESTRATOR)
    \/ DropReceiver

SpecNotify == InitWatcher /\ [][NextNotify]_vars

\* The watcher with the history of the entries it took, of the lines it
\* logged for them and of its Telegram calls.
NextEntry ==
    \/ WatcherSubscribe
    \/ WatcherRecvLogged
    \/ WatcherStreamEnd
    \/ WatcherFetchLogged
    \/ WatcherRetrySleep
    \/ WatcherSend
    \/ WatcherNotifyLogged
    \/ WatcherReconnectSleep
    \/ LockReceiver(ORCHESTRATOR)
    \/ Recv(ORCHESTRATOR)
    \/ DropReceiver

SpecEntry == InitWatcher /\ [][NextEntry]_vars

\* What a step of a task or of the receiver changes: the task's position,
\* its history of calls, the receiver's guard, the channel's queue.
taskVars == << wpc, mpc, fetch_log, sleep_log, sent_log, rx_guard, message_queue >>

\* The watcher's own steps are taken when they can be: a call that was made
\* returns and a sleep ends (the task is scheduled), and the orchestrator
\* takes what is on the bus. Nothing makes the chain node deliver a log entry
\* or end the stream, and nothing makes the receiver go away.
FairWatcher ==
    /\ WF_taskVars(WatcherSubscribe)
    /\ WF_taskVars(WatcherFetch)
    /\ WF_taskVars(WatcherRetrySleep)
    /\ WF_taskVars(WatcherSend)
    /\ WF_taskVars(WatcherNotify)
    /\ WF_taskVars(WatcherReconnectSleep)
    /\ WF_taskVars(LockReceiver(ORCHESTRATOR))
    /\ WF_taskVars(Recv(ORCHESTRATOR))

SpecWatcherLive == InitWatcher /\ [][NextWatcher]_vars /\ FairWatcher

(***************************************************************************)
(* The feed monitor on its own, with the orchestrator draining the bus.    *)
(***************************************************************************)
InitMonitor ==
    /\ now = 1
    /\ dtx = NONE
    /\ dres = NONE
    /\ dres2 = NONE
    /\ dpc = "idle"
    /\ ftext = NONE
    /\ InitPipeline(0, MaxFrames)

NextMonitor ==
    \/ MonitorStart
    \/ MonitorConnect
    \/ MonitorHandshake
    \/ MonitorReadText
    \/ MonitorReadOther
    \/ MonitorSend
    \/ MonitorReconnectSleep
    \/ LockReceiver(ORCHESTRATOR)
    \/ Recv(ORCHESTRATOR)
    \/ DropReceiver

\* The monitor's own steps are taken when they can be: connect_async and the
\* handshake return, the sleep ends, a send completes once the bus has room;
\* the orchestrator takes what is on the bus. Nothing makes the feed deliver
\* a frame or close the connection.
FairMonitor ==
    /\ WF_taskVars(MonitorStart)
    /\ WF_taskVars(MonitorConnect)
    /\ WF_taskVars(MonitorHandshake)
    /\ WF_taskVars(MonitorSend)
    /\ WF_taskVars(MonitorReconnectSleep)
    /\ WF_taskVars(LockReceiver(ORCHESTRATOR))
    /\ WF_taskVars(Recv(ORCHESTRATOR))

SpecMonitor == InitMonitor /\ [][NextMonitor]_vars /\ FairMonitor

(***************************************************************************)
(* The feed monitor given known text frames: process_message applied to    *)
(* every modelled frame.                                                   *)
(***************************************************************************)
InitFrame ==
    /\ now = 1
    /\ dtx = NONE
    /\ dres = NONE
    /\ dres2 = NONE
    /\ dpc = "idle"
    /\ ftext \in TextFrames
    /\ InitPipeline(0, MaxFrames)

NextFrame ==
    \/ MonitorStart
    \/ MonitorConnect
    \/ MonitorHandshake
    \/ MonitorReadKnownText
    \/ MonitorReadOther
    \/ MonitorSend
    \/ MonitorReconnectSleep
    \/ LockReceiver(ORCHESTRATOR)
    \/ Recv(ORCHESTRATOR)
    \/ DropReceiver

SpecFrame == InitFrame /\ [][NextFrame]_vars

(***************************************************************************)
(* The orchestrator with a feed monitor as the producer of the bus, under  *)
(* every configuration of the flags and the wallets.                       *)
(***************************************************************************)
InitOrch ==
    /\ now = 1
    /\ dtx = NONE
    /\ dres = NONE
    /\ dres2 = NONE
    /\ dpc = "idle"
    /\ ftext = NONE
    /\ InitProducers(0, MaxFrames)
    /\ auto_sell \in BOOLEAN
    /\ anti_rug_check \in BOOLEAN
    /\ wallets \in 0 .. MaxWallets
    /\ enable_raydium = TRUE
    /\ worker_threads = MaxWorkers
    /\ spawned = {"feed"}
    /\ opc = "recv"
    /\ omsg = NOTHING
    /\ wallet_index = 0
    /\ trade_log = << >>
    /\ olog = << >>
    /\ tg_log = << >>
    /\ seen_entry = NOTHING
    /\ wlog = << >>
    /\ state = RunningState
    /\ stop_mark = << >>

NextOrch ==
    \/ MonitorStart
    \/ MonitorConnect
    \/ MonitorHandshake
    \/ MonitorReadText
    \/ MonitorReadOther
    \/ MonitorSend
    \/ MonitorReconnectSleep
    \/ OrchLock
    \/ OrchRecv
    \/ OrchDispatch
    \/ OrchSnipe

SpecOrch == InitOrch /\ [][NextOrch]_vars

(***************************************************************************)
(* The trading calls on a constructed bot: up to MaxCalls calls of         *)
(* snipe_token and sell_token in any order, by a task that a panic of a    *)
(* call ends.                                                              *)
(***************************************************************************)
InitTrade ==
    /\ now = 1
    /\ dtx = NONE
    /\ dres = NONE
    /\ dres2 = NONE
    /\ dpc = "idle"
    /\ ftext = NONE
    /\ InitProducers(0, 0)
    /\ auto_sell = TRUE
    /\ anti_rug_check \in BOOLEAN
    /\ wallets \in 0 .. MaxWallets
    /\ enable_raydium = TRUE
    /\ worker_threads = MaxWorkers
    /\ spawned = {}
    /\ opc = "call"
    /\ omsg = NOTHING
    /\ wallet_index = 0
    /\ trade_log = << >>
    /\ olog = << >>
    /\ tg_log = << >>
    /\ seen_entry = NOTHING
    /\ wlog = << >>
    /\ state = InitialState
    /\ stop_mark = << >>

NextTrade ==
    \/ SnipeCall
    \/ SellCall

SpecTrade == InitTrade /\ [][NextTrade]_vars

(***************************************************************************)
(* The bot as bin/cli.rs starts it: SolanaSniperBot::new, then             *)
(* start_monitoring with the tasks it spawns. Only the watcher publishes,  *)
(* so the orchestrator takes PoolUpdate events only and the snipe loop is  *)
(* not reached.                                                            *)
(***************************************************************************)
InitStart ==
    /\ now = 1
    /\ dtx = NONE
    /\ dres = NONE
    /\ dres2 = NONE
    /\ dpc = "idle"
    /\ ftext = NONE
    /\ InitProducers(MaxLogs, MaxFrames)
    /\ auto_sell = TRUE
    /\ anti_rug_check = TRUE
    /\ wallets \in 0 .. MaxWallets
    /\ enable_raydium \in BOOLEAN
    /\ worker_threads = MaxWorkers
    /\ spawned = {}
    /\ opc = "start"
    /\ omsg = NOTHING
    /\ wallet_index = 0
    /\ trade_log = << >>
    /\ olog = << >>
    /\ tg_log = << >>
    /\ seen_entry = NOTHING
    /\ wlog = << >>
    /\ state = InitialState
    /\ stop_mark = << >>

NextBot ==
    \/ StartMonitoring
    \/ Running("watcher") /\ WatcherSubscribe
    \/ Running("watcher") /\ WatcherRecv
    \/ Running("watcher") /\ WatcherStreamEnd
    \/ Running("watcher") /\ WatcherFetch
    \/ Running("watcher") /\ WatcherRetrySleep
    \/ Running("watcher") /\ WatcherSend
    \/ Running("watcher") /\ WatcherNotify
    \/ Running("watcher") /\ WatcherReconnectSleep
    \/ OrchLock
    \/ OrchRecv
    \/ OrchDispatch

\* What a step of the orchestrator changes: its position, the receiver's
\* guard, the channel's queue.
orchTaskVars == << opc, rx_guard, message_queue >>

\* The orchestrator's task is scheduled: start_monitoring reaches its loop,
\* the lock is taken when it is free, recv() returns when an event is
\* queued, and the match is run. Nothing is assumed of the producers.
FairOrch ==
    /\ WF_orchTaskVars(StartMonitoring)
    /\ WF_orchTaskVars(OrchLock)
    /\ WF_orchTaskVars(OrchRecv)
    /\ WF_orchTaskVars(OrchDispatch)

SpecBot == InitStart /\ [][NextBot]_vars /\ FairOrch

\* The bot as started, with stop() called by another task at any time.
NextStop ==
    \/ StartMonitoring
    \/ Running("watcher") /\ WatcherSubscribe
    \/ Running("watcher") /\ WatcherRecv
    \/ Running("watcher") /\ WatcherStreamEnd
    \/ Running("watcher") /\ WatcherFetch
    \/ Running("watcher") /\ WatcherRetrySleep
    \/ Running("watcher") /\ WatcherSend
    \/ Running("watcher") /\ WatcherNotify
    \/ Running("watcher") /\ WatcherReconnectSleep
    \/ OrchLock
    \/ OrchRecv
    \/ OrchDispatch
    \/ stop

SpecStop == InitStart /\ [][NextStop]_vars /\ FairOrch

(***************************************************************************)
(* The tasks on the runtime's worker threads: the watcher and a feed       *)
(* monitor, both spawned (as start_all_monitors spawns the monitors), on 1 *)
(* to MaxWorkers worker threads, and the orchestrator on the main thread.  *)
(***************************************************************************)
InitExec ==
    /\ now = MaxClock
    /\ dtx = NONE
    /\ dres = NONE
    /\ dres2 = NONE
    /\ dpc = "idle"
    /\ ftext = NONE
    /\ InitProducers(BusLogs, MaxFrames)
    /\ auto_sell = FALSE
    /\ anti_rug_check = TRUE
    /\ wallets = 1
    /\ enable_raydium = TRUE
    /\ worker_threads \in 1 .. MaxWorkers
    /\ spawned = Producers
    /\ opc = "recv"
    /\ omsg = NOTHING
    /\ wallet_index = 0
    /\ trade_log = << >>
    /\ olog = << >>
    /\ tg_log = << >>
    /\ seen_entry = NOTHING
    /\ wlog = << >>
    /\ state = RunningState
    /\ stop_mark = << >>

NextExec ==
    \/ Runnable("watcher") /\ WatcherSubscribe
    \/ Runnable("watcher") /\ WatcherRecv
    \/ Runnable("watcher") /\ WatcherStreamEnd
    \/ Runnable("watcher") /\ WatcherFetch
    \/ Runnable("watcher") /\ WatcherRetrySleep
    \/ Runnable("watcher") /\ WatcherSend
    \/ Runnable("watcher") /\ WatcherNotify
    \/ Runnable("watcher") /\ WatcherReconnectSleep
    \/ Runnable("feed") /\ MonitorStart
    \/ Runnable("feed") /\ MonitorConnect
    \/ Runnable("feed") /\ MonitorHandshake
    \/ Runnable("feed") /\ MonitorReadText
    \/ Runnable("feed") /\ MonitorReadOther
    \/ Runnable("feed") /\ MonitorSend
    \/ Runnable("feed") /\ MonitorReconnectSleep
    \/ OrchLock
    \/ OrchRecv
    \/ OrchDispatch

SpecExec == InitExec /\ [][NextExec]_vars

(***************************************************************************)
(* The decoder on its own: decode_transaction applied to every modelled    *)
(* transaction.                                                            *)
(***************************************************************************)
InitDecode ==
    /\ now = 1
    /\ dtx \in TransactionsOf(MaxInstr)
    /\ dres = NONE
    /\ dres2 = NONE
    /\ dpc = "idle"
    /\ ftext = NONE
    /\ InitPipeline(0, 0)

Decode ==
    /\ dpc = "idle"
    /\ \E clock \in ClockReadings(now, Len(dtx.instructions)) :
          /\ dres' = decode_transaction(dtx, clock)
          /\ now' = LastReading(now, clock)
    /\ dpc' = "decoded"
    /\ UNCHANGED << dtx, dres2 >>
    /\ UNCHANGED << watcherVars, monitorVars, busVars >>
    /\ UNCHANGED botVars

\* The same record is decoded a second time, at a later moment.
DecodeAgain ==
    /\ dpc = "decoded"
    /\ \E clock \in ClockReadings(now, Len(dtx.instructions)) :
          /\ dres2' = decode_transaction(dtx, clock)
          /\ now' = LastReading(now, clock)
    /\ dpc' = "decoded_again"
    /\ UNCHANGED << dtx, dres >>
    /\ UNCHANGED << watcherVars, monitorVars, busVars >>
    /\ UNCHANGED botVars

NextDecode == Decode \/ DecodeAgain

SpecDecode == InitDecode /\ [][NextDecode]_vars

(***************************************************************************)
(* Properties.                                                             *)
(***************************************************************************)
AllErr(log) == \A i \in 1..Len(log) : log[i] = "err"
IsPrefix(s, t) == Len(s) <= Len(t) /\ \A i \in 1..Len(s) : s[i] = t[i]
NoDuplicates(s) == \A i, j \in 1..Len(s) : s[i] = s[j] => i = j

\* The retry loop of the entry at hand is over and every get_transaction call
\* of it failed.
FetchExhausted ==
    /\ fetch_log # << >>
    /\ AllErr(fetch_log)
    /\ wpc \notin {"fetch", "retry_sleep"}

C1_AfterExhaustion ==
    /\ Len(fetch_log) <= 3
    /\ FetchExhausted =>
          /\ Len(fetch_log) = 3
          /\ sent_log = 0
          /\ decode_log = 0
          /\ wpc \in {"recv", "reconnect_sleep", "subscribe"}

C1_ExhaustingStep ==
    (wpc = "fetch" /\ Len(fetch_log') = 3 /\ AllErr(fetch_log')) =>
        /\ wpc' = "recv"
        /\ message_queue' = message_queue
        /\ published' = published

\* C1: when every get_transaction call for a candidate signature fails, the
\* watcher makes exactly 3 calls, publishes no event and decodes nothing for
\* that signature, does not die, and the step of the third failure leaves it
\* reading the next log entry of the same subscription.
C1_RetryExhaustion == []C1_AfterExhaustion /\ [][C1_ExhaustingStep]_vars

C1_Witness ==
    /\ wpc = "recv"
    /\ fetch_log = << "err", "err", "err" >>
    /\ logs_left > 0

\* C2 as stated: with a fetch that always fails, three backoff delays of at
\* least 100 ms, 200 ms and 400 ms have been slept when the watcher gives up.
C2_ThreeDelays ==
    FetchExhausted =>
        /\ Len(sleep_log) = 3
        /\ sleep_log[1] >= 100
        /\ sleep_log[2] >= 200
        /\ sleep_log[3] >= 400

\* C2 amended: the n-th failed attempt (n = 1, 2) is followed by a sleep of
\* 100 ms * 2^n, nothing is slept before the first attempt or after the third
\* failure, so a fetch that always fails sleeps exactly twice, 200 ms and then
\* 400 ms, before the watcher gives up.
C2_TwoDelays ==
    /\ \A i \in 1..Len(sleep_log) : sleep_log[i] = 100 * (2 ^ i)
    /\ Len(sleep_log) <= 2
    /\ wpc \in {"fetch", "retry_sleep"} => Len(sleep_log) = Len(fetch_log)
    /\ FetchExhausted => sleep_log = << 200, 400 >>

C2_Witness ==
    /\ FetchExhausted
    /\ sleep_log = << 200, 400 >>

\* C3: while a candidate is being fetched the counter counts the failed calls
\* of this candidate only (it starts at 0 whatever the earlier candidates
\* used); a successful call is the last call made for the candidate, no sleep
\* follows it, and it is followed by exactly one decode (and there is no
\* decode without it).
C3_FreshCounterNoRetryOnSuccess ==
    /\ wpc \in {"fetch", "retry_sleep"} =>
          /\ retry_count = Len(fetch_log)
          /\ AllErr(fetch_log)
          /\ decode_log = 0
    /\ \A i \in 1..(Len(fetch_log) - 1) : fetch_log[i] = "err"
    /\ decode_log = (IF fetch_log # << >> /\ fetch_log[Len(fetch_log)] = "ok"
                     THEN 1 ELSE 0)
    /\ (fetch_log # << >> /\ fetch_log[Len(fetch_log)] = "ok") =>
          /\ Len(fetch_log) <= 3
          /\ Len(sleep_log) = Len(fetch_log) - 1
          /\ wpc \notin {"fetch", "retry_sleep"}

C3_Witness ==
    /\ logs_left <= MaxLogs - 2
    /\ fetch_log = << "err", "ok" >>
    /\ decode_log = 1
    /\ retry_count = 1

\* C4: for every producer, the events handed out by the bus are, in order,
\* the first events that producer published: each producer's events are
\* received in the order it published them, whatever the other producer does.
C4_FifoPerProducer ==
    \A p \in Producers : IsPrefix(received[p], published[p])

C4_Witness ==
    /\ Len(received["watcher"]) >= 2
    /\ Len(received["feed"]) >= 2

\* The ghost ids of the events of producer p in a queue, in queue order.
RECURSIVE IdsOf(_, _)
IdsOf(queue, p) ==
    IF queue = << >> THEN << >>
    ELSE (IF Head(queue).src = p THEN << << p, Head(queue).seq >> >> ELSE << >>)
            \o IdsOf(Tail(queue), p)

C5_Bounded ==
    /\ Len(message_queue) <= Capacity
    /\ \A p \in Producers : published[p] = received[p] \o IdsOf(message_queue, p)

C5_SendStep ==
    /\ (wpc = "send" /\ Len(message_queue) >= Capacity) =>
          (wpc' = "send" /\ pull_updates' = pull_updates)
    /\ (mpc = "send" /\ Len(message_queue) >= Capacity) =>
          (mpc' = "send" /\ msg_out' = msg_out)
    /\ (wpc = "send" /\ wpc' # "send") =>
          /\ Len(message_queue') = Len(message_queue) + 1
          /\ message_queue'[Len(message_queue')].msg = Head(pull_updates)
    /\ (mpc = "send" /\ mpc' # "send") =>
          /\ Len(message_queue') = Len(message_queue) + 1
          /\ message_queue'[Len(message_queue')].msg = msg_out

\* C5: the bus never holds more events than its capacity; a producer whose
\* send finds the bus full stays in that send with its event until a slot is
\* free, a send completes only by putting its event on the queue, and every
\* event whose send completed is on the queue or has been received (none is
\* dropped or overwritten).
C5_Backpressure == []C5_Bounded /\ [][C5_SendStep]_vars

C5_Witness ==
    /\ Len(message_queue) = Capacity
    /\ wpc = "send"
    /\ mpc = "send"

\* C6: no event is handed out twice, to one reader or to two, and an event
\* that has been handed out is no longer on the queue, with the orchestrator
\* and a holder of the receiver's handle both reading.
C6_AtMostOnce ==
    /\ \A p \in Producers : NoDuplicates(received[p])
    /\ \A i \in 1..Len(message_queue) :
          \A j \in 1..Len(received[message_queue[i].src]) :
              received[message_queue[i].src][j]
                  # << message_queue[i].src, message_queue[i].seq >>
    /\ NoDuplicates([i \in 1..Len(message_queue) |->
                        << message_queue[i].src, message_queue[i].seq >>])

C6_Witness ==
    /\ takers = Readers
    /\ Len(received["watcher"]) + Len(received["feed"]) >= 3

\* C7 as stated: there is exactly one receive handle, so two distinct parties
\* are never both able to receive from the bus.
C7_SingleHandle == Cardinality(rx_handles) = 1

\* C7 amended: the bus has one receiver behind a mutex; any number of parties
\* can hold a handle on it (get_message_receiver hands out clones), but at no
\* point do two parties hold the receiver's guard, so at most one party at a
\* time is receiving, and only a party with a handle is.
C7_SingleGuard ==
    /\ Cardinality(rx_guard) <= 1
    /\ rx_guard \subseteq rx_handles

C7_Witness ==
    /\ rx_handles = Readers
    /\ rx_guard = Holders
    /\ ORCHESTRATOR \in takers

\* The instructions of the decoded transaction that are pool initializations
\* in partially decoded form, in a parsed message.
PoolInstructions ==
    IF dtx.message = "Parsed"
    THEN { k \in 1..Len(dtx.instructions) :
             /\ dtx.instructions[k].form = "PartiallyDecoded"
             /\ dtx.instructions[k].program_id = "675kPX9MHTjS2zt1qfr1NYHuzeLXfQM9H24wFSUt1Mp8"
             /\ Len(dtx.instructions[k].accounts) >= 10 }
    ELSE {}

\* C8: for every instruction of the DEX program with at least 10 accounts (in
\* the partially decoded form of a parsed message), decode_transaction returns
\* Ok with a PoolUpdate whose pool_address, token_a and token_b are the
\* accounts at Rust indices 4, 8 and 9, with liquidity 0 and volume_24h 0.
C8_PoolUpdatePositions ==
    dpc = "decoded" =>
        \A k \in PoolInstructions :
            /\ dres.status = "Ok"
            /\ \E j \in 1..Len(dres.events) :
                  /\ dres.events[j].type = "PoolUpdate"
                  /\ dres.events[j].pool_address = dtx.instructions[k].accounts[5]
                  /\ dres.events[j].token_a = dtx.instructions[k].accounts[9]
                  /\ dres.events[j].token_b = dtx.instructions[k].accounts[10]
                  /\ dres.events[j].liquidity = 0
                  /\ dres.events[j].volume_24h = 0

C8_Witness ==
    /\ dpc = "decoded"
    /\ Cardinality(PoolInstructions) = 2
    /\ \E k \in PoolInstructions : Len(dtx.instructions[k].accounts) = 10
    /\ Len(dres.events) = 2

\* C9: decode_transaction never indexes past the end of an account list, and
\* a transaction all of whose instructions are of the DEX program with 9
\* accounts or fewer decodes to Ok with no event.
C9_ShortAccountLists ==
    dpc = "decoded" =>
        /\ dres.status # "Panic"
        /\ ( /\ dtx.instructions # << >>
             /\ \A k \in 1..Len(dtx.instructions) :
                   /\ dtx.instructions[k].program_id
                         = "675kPX9MHTjS2zt1qfr1NYHuzeLXfQM9H24wFSUt1Mp8"
                   /\ Len(dtx.instructions[k].accounts) <= 9 )
           => dres = [status |-> "Ok", events |-> << >>]

C9_Witness ==
    /\ dpc = "decoded"
    /\ dtx.message = "Parsed"
    /\ dtx.instructions # << >>
    /\ \A k \in 1..Len(dtx.instructions) :
          /\ dtx.instructions[k].form = "PartiallyDecoded"
          /\ dtx.instructions[k].program_id
                = "675kPX9MHTjS2zt1qfr1NYHuzeLXfQM9H24wFSUt1Mp8"
          /\ Len(dtx.instructions[k].accounts) = 9
    /\ dres = [status |-> "Ok", events |-> << >>]

\* C10 as stated: a Json transaction decodes to exactly one event per
\* instruction of the DEX program with more than 9 accounts, whatever the
\* form of the instruction.
C10_EveryForm ==
    (dpc = "decoded" /\ dtx.encoding = "Json") =>
        /\ dres.status = "Ok"
        /\ Len(dres.events) =
              Cardinality({ k \in 1..Len(dtx.instructions) :
                  /\ dtx.instructions[k].program_id
                        = "675kPX9MHTjS2zt1qfr1NYHuzeLXfQM9H24wFSUt1Mp8"
                  /\ Len(dtx.instructions[k].accounts) > 9 })

\* C10 amended: a Json transaction decodes to Ok with exactly one event per
\* instruction that is in partially decoded form in a parsed message, is of
\* the DEX program and has more than 9 accounts, in instruction order (the
\* j-th event carries the pool of the j-th such instruction); every other
\* instruction, a compiled or fully parsed one of the DEX program included,
\* adds no event and causes no error.
C10_OnePerPartiallyDecoded ==
    (dpc = "decoded" /\ dtx.encoding = "Json") =>
        /\ dres.status = "Ok"
        /\ Len(dres.events) = Cardinality(PoolInstructions)
        /\ \A j \in 1..Len(dres.events) :
              \E k \in PoolInstructions :
                  /\ Cardinality({ i \in PoolInstructions : i <= k }) = j
                  /\ dres.events[j].pool_address = dtx.instructions[k].accounts[5]

C10_Witness ==
    /\ dpc = "decoded"
    /\ dtx.message = "Parsed"
    /\ Len(dtx.instructions) = 2
    /\ dtx.instructions[1].form = "Compiled"
    /\ dtx.instructions[1].program_id = "675kPX9MHTjS2zt1qfr1NYHuzeLXfQM9H24wFSUt1Mp8"
    /\ Len(dtx.instructions[1].accounts) = 10
    /\ PoolInstructions = {2}
    /\ Len(dres.events) = 1

\* C11 as stated: a transaction that is not in the fully parsed form, be it
\* another encoding or a Json transaction with a raw message, decodes to an
\* empty result and not to an error.
C11_NotParsedIsEmptyOk ==
    (dpc = "decoded" /\ (dtx.encoding # "Json" \/ dtx.message # "Parsed")) =>
        dres = [status |-> "Ok", events |-> << >>]

\* C11 amended: a Json transaction whose message is not parsed decodes to Ok
\* with no event, whatever its instructions; a transaction in any other
\* encoding decodes to an error, with no event.
C11_RawEmptyOtherEncodingErr ==
    dpc = "decoded" =>
        /\ (dtx.encoding = "Json" /\ dtx.message # "Parsed") =>
               dres = [status |-> "Ok", events |-> << >>]
        /\ dtx.encoding # "Json" => dres = [status |-> "Err", events |-> << >>]
        /\ dres.status = "Err" => dtx.encoding # "Json"

C11_Witness ==
    /\ dpc = "decoded"
    /\ dtx.encoding = "Binary"
    /\ dres.status = "Err"

\* An event without its timestamp.
Unstamped(ev) == [ev EXCEPT !.timestamp = 0]

\* C12 as stated: two decodes of the same transaction record, made at any two
\* moments, return the same list of events.
C12_SameEvents ==
    dpc = "decoded_again" => dres2.events = dres.events

\* C12 amended: two decodes of the same record, made at any two moments,
\* return the same status and lists of the same length whose events agree in
\* every field but the timestamp, which is the time of each decode (the
\* later decode stamps no earlier than the first).
C12_SameUpToTimestamp ==
    dpc = "decoded_again" =>
        /\ dres2.status = dres.status
        /\ Len(dres2.events) = Len(dres.events)
        /\ \A j \in 1..Len(dres.events) :
              /\ Unstamped(dres2.events[j]) = Unstamped(dres.events[j])
              /\ dres2.events[j].timestamp >= dres.events[j].timestamp

C12_Witness ==
    /\ dpc = "decoded_again"
    /\ Len(dres.events) = 2
    /\ dres2.events[1].timestamp > dres.events[2].timestamp

\* The watcher is at work on the log entry of signature sig.
AtWorkOn(sig) ==
    /\ wpc \in {"fetch", "retry_sleep", "send", "notify"}
    /\ log_info.signature = sig

\* The event of the one pool initialization of sigOnePool, less its stamp.
OnePoolEvent(ev) ==
    /\ ev.type = "PoolUpdate"
    /\ ev.pool_address = Address(1, 4)
    /\ ev.token_a = Address(1, 8)
    /\ ev.token_b = Address(1, 9)
    /\ ev.timestamp # 0

C13_Pending ==
    (AtWorkOn("sigOnePool") /\ wpc \in {"send", "notify"}) =>
        /\ Len(pull_updates) = 1
        /\ OnePoolEvent(pull_updates[1])
        /\ sent_log = (IF wpc = "send" THEN 0 ELSE 1)

C13_Step ==
    /\ (AtWorkOn("sigOnePool") /\ wpc = "fetch" /\ Len(fetch_log') > Len(fetch_log)
            /\ fetch_log'[Len(fetch_log')] = "ok") =>
          wpc' = "send"
    /\ (AtWorkOn("sigOnePool") /\ wpc = "send" /\ wpc' # "send"
            /\ ~ReceiverClosed) =>
          /\ Len(message_queue') = Len(message_queue) + 1
          /\ message_queue'[Len(message_queue')].msg = pull_updates[1]
          /\ \A i \in 1..Len(message_queue) : message_queue'[i] = message_queue[i]
          /\ wpc' = "notify"
    /\ (AtWorkOn("sigOnePool") /\ wpc = "notify" /\ wpc' # "notify") =>
          /\ wpc' = "recv"
          /\ message_queue' = message_queue

\* C13: a log entry with the marker and a parsable signature whose
\* transaction is fetched and holds one pool initialization of 11 accounts
\* puts exactly one event on the bus: the fetch is followed by one send of
\* one PoolUpdate with the accounts at indices 4, 8 and 9 and a timestamp that
\* is not 0, that send appends it to the queue of a bus whose receiver lives,
\* and the watcher then takes the next log entry without a second send.
C13_EndToEnd == []C13_Pending /\ [][C13_Step]_vars

C13_Witness ==
    /\ wpc = "notify"
    /\ log_info.signature = "sigOnePool"
    /\ sent_log = 1
    /\ message_queue # << >>
    /\ OnePoolEvent(message_queue[Len(message_queue)].msg)
    /\ published["watcher"] # << >>

\* The connection state the watcher is in at each position of its task: the
\* subscribe call, the reconnect sleep, the loop over the stream; a task that
\* has returned or panicked is in none of them.
ConnectionState(pc) ==
    CASE pc = "subscribe" -> "Subscribing"
      [] pc = "reconnect_sleep" -> "Backoff"
      [] pc \in {"recv", "fetch", "retry_sleep", "send", "notify"} -> "Streaming"
      [] OTHER -> "Terminated"

WatcherEdges ==
    { << "Subscribing", "Streaming" >>, << "Subscribing", "Backoff" >>,
      << "Streaming", "Backoff" >>, << "Backoff", "Subscribing" >> }

C14_Edges ==
    \/ ConnectionState(wpc') = ConnectionState(wpc)
    \/ << ConnectionState(wpc), ConnectionState(wpc') >> \in WatcherEdges

\* C14 as stated: the watcher only moves along the edges of its state
\* machine, and from every reachable state it eventually attempts to
\* subscribe again.
C14_AlwaysResubscribes ==
    /\ [][C14_Edges]_wpc
    /\ []<>(ConnectionState(wpc) = "Subscribing")

\* C14 amended: the watcher only moves along Subscribing -> Streaming ->
\* Backoff -> Subscribing (with Subscribing -> Backoff on a failed subscribe),
\* it has no terminal state (its task never returns or dies), every subscribe
\* attempt ends in Streaming or in Backoff and every Backoff is followed by a
\* new subscribe attempt; while the stream stays open the watcher stays in
\* Streaming and does not subscribe again.
C14_NoTerminalState ==
    /\ [][C14_Edges]_wpc
    /\ [](ConnectionState(wpc) # "Terminated")
    /\ (ConnectionState(wpc) = "Backoff") ~> (ConnectionState(wpc) = "Subscribing")
    /\ (ConnectionState(wpc) = "Subscribing")
          ~> (ConnectionState(wpc) \in {"Streaming", "Backoff"})

C14_Witness ==
    /\ wpc = "subscribe"
    /\ logs_left < MaxLogs
    /\ sent_log > 0

C15_Sleeping ==
    IF wpc = "reconnect_sleep"
    THEN backoff_secs = RECONNECT_SECS
    ELSE backoff_secs = 0

C15_Step ==
    /\ (wpc = "subscribe" /\ wpc' \notin {"subscribe", "recv"})
          => (wpc' = "reconnect_sleep" /\ backoff_secs' = RECONNECT_SECS)
    /\ (wpc = "recv" /\ wpc' \notin {"recv", "fetch"})
          => (wpc' = "reconnect_sleep" /\ backoff_secs' = RECONNECT_SECS)
    /\ (wpc # "subscribe" /\ wpc' = "subscribe")
          => (wpc = "reconnect_sleep" /\ backoff_secs = RECONNECT_SECS)

\* C15: after every failed subscribe and after every end of the stream the
\* watcher sleeps 5 seconds, and it subscribes again only out of that sleep;
\* the sleep is 5 seconds on every cycle, however many failures came before.
C15_FixedDelay ==
    /\ []C15_Sleeping
    /\ [][C15_Step]_<< wpc, backoff_secs >>

C15_Witness ==
    /\ wpc = "reconnect_sleep"
    /\ backoff_secs = RECONNECT_SECS
    /\ logs_left < MaxLogs

\* The number of events the decoder returned for the transaction at hand.
Decoded ==
    LET clock == CHOOSE c \in ClockReadings(now, Len(fetched_tx.instructions)) : TRUE
    IN  Len(decode_transaction(fetched_tx, clock).events)

C16_Attempts ==
    /\ err_log <= sent_log
    /\ wpc \in {"send", "notify"} =>
          sent_log + Len(pull_updates) =
              Decoded + (IF wpc = "notify" THEN 1 ELSE 0)

C16_Step ==
    /\ (wpc = "send" /\ wpc' # "send") =>
          /\ wpc' = "notify"
          /\ sent_log' = sent_log + 1
          /\ pull_updates' = pull_updates
          /\ IF ReceiverClosed
             THEN /\ err_log' = err_log + 1
                  /\ message_queue' = message_queue
                  /\ published' = published
             ELSE /\ err_log' = err_log
                  /\ Len(published'["watcher"]) = Len(published["watcher"]) + 1
    /\ (wpc = "notify" /\ wpc' # "notify") =>
          /\ wpc' = (IF sent_log < Decoded THEN "send" ELSE "recv")
          /\ Len(pull_updates') = Decoded - sent_log

\* C16: the watcher attempts one send for every event the decoder returned;
\* a send that fails because the receiver is gone is logged, the events left
\* of the transaction are still sent, and the watcher goes back to the stream
\* for the next log entry.
C16_PublishEach ==
    /\ []C16_Attempts
    /\ [][C16_Step]_<< wpc, sent_log, err_log >>

C16_Witness ==
    /\ ReceiverClosed
    /\ wpc = "recv"
    /\ sent_log = 2
    /\ err_log = 2
    /\ published["watcher"] = << >>
    /\ logs_left > 0

\* The feed monitor is in the read loop of a connection (Streaming).
MonitorStreaming == mpc \in {"read", "send"}

C17_NoDelayPending ==
    /\ MonitorStreaming => mon_sleep_ms = 0
    /\ mpc = "handshake" => mon_sleep_ms = 0

C17_Step ==
    /\ (mpc = "connect" /\ mpc' # "connect")
          => mpc' \in {"handshake", "reconnect_sleep"}
    /\ (~MonitorStreaming /\ MonitorStreaming')
          => (mpc = "handshake" /\ mpc' = "read" /\ mon_sleep_ms' = 0)
    /\ (frames_left' # frames_left) => mpc = "read"
    /\ (mpc = "handshake" /\ mpc' \notin {"handshake", "read"})
          => /\ mpc' = "reconnect_sleep"
             /\ mon_sleep_ms' = reconnect_delay_ms
             /\ frames_left' = frames_left
    /\ (mpc = "reconnect_sleep" /\ mpc' # "reconnect_sleep")
          => mpc' = "connect"

\* C17: after a successful connect the feed monitor sends the handshake
\* before it reads a frame, it enters the read loop only out of a handshake
\* that succeeded, and a handshake that failed takes it, with no frame read,
\* into one sleep of the configured reconnect delay and from there to the
\* next connect.
C17_HandshakeFirst ==
    /\ []C17_NoDelayPending
    /\ [][C17_Step]_<< mpc, frames_left, mon_sleep_ms >>

C17_Witness ==
    /\ mpc = "read"
    /\ frames_left = MaxFrames
    /\ mon_sleep_ms = 0

C18_Delay ==
    IF mpc = "reconnect_sleep"
    THEN mon_sleep_ms = reconnect_delay_ms
    ELSE mon_sleep_ms = 0

C18_Step ==
    /\ (mpc = "connect" /\ mpc' \notin {"connect", "handshake"})
          => (mpc' = "reconnect_sleep" /\ mon_sleep_ms' = reconnect_delay_ms)
    /\ (mpc = "read" /\ mpc' \notin {"read", "send"})
          => (mpc' = "reconnect_sleep" /\ mon_sleep_ms' = reconnect_delay_ms)
    /\ (mpc # "connect" /\ mpc' = "connect")
          => (mpc = "start" \/ (mpc = "reconnect_sleep" /\ mon_sleep_ms = reconnect_delay_ms))
    /\ (mpc # "start") => (mpc' # "returned")

\* C18: a close frame, a transport error, the end of the stream or a failed
\* connect takes the feed monitor into one sleep of exactly the configured
\* reconnect delay, the sleep is always followed by the next connect attempt,
\* every connect attempt comes to its result, and the monitor, once in its
\* connect loop, never returns.
C18_RetryForever ==
    /\ []C18_Delay
    /\ [][C18_Step]_<< mpc, mon_sleep_ms >>
    /\ (mpc = "reconnect_sleep") ~> (mpc = "connect")
    /\ (mpc = "connect") ~> (mpc \in {"handshake", "reconnect_sleep"})

C18_Witness ==
    /\ mpc = "connect"
    /\ frames_left < MaxFrames
    /\ mon_sleep_ms = 0

\* The monitor takes the text frame ftext off the connection in this step.
ReadsFrame == mpc = "read" /\ frames_left' < frames_left

\* C19: when the feed monitor reads a text frame that is not valid JSON it
\* logs a warning, publishes nothing, and stays in the read loop of the same
\* connection.
C19_InvalidFrameWarned ==
    [][(ReadsFrame /\ FrameKind(ftext) = "invalid_json") =>
          /\ flog' = "warn"
          /\ published' = published
          /\ message_queue' = message_queue
          /\ mpc' = "read"]_<< mpc, frames_left, flog >>

C19_Witness ==
    /\ FrameKind(ftext) = "invalid_json"
    /\ frames_left < MaxFrames
    /\ mpc = "read"
    /\ flog = NONE
    /\ published["feed"] = << >>

\* C20: a text frame whose method is unknown or missing makes the feed
\* monitor log a warning, publishes no event, and leaves the monitor in the
\* read loop of the same connection.
C20_NoMethodWarned ==
    [][(ReadsFrame /\ FrameKind(ftext) \in {"unknown_method", "no_method"}) =>
          /\ flog' = "warn"
          /\ published' = published
          /\ message_queue' = message_queue
          /\ mpc' = "read"]_<< mpc, frames_left, flog >>

C20_Witness ==
    /\ FrameKind(ftext) = "no_method"
    /\ frames_left < MaxFrames
    /\ mpc = "read"
    /\ flog = NONE
    /\ published["feed"] = << >>

\* C21: a frame whose method is poolUpdate, tokenListing or priceUpdate and
\* whose result has the shape of that variant makes the feed monitor publish
\* that one event; a result of another shape publishes nothing, is logged
\* with a warning, and leaves the monitor in the read loop.
C21_ShapeMismatchWarned ==
    [][/\ (ReadsFrame /\ FrameKind(ftext) = "event") =>
             /\ mpc' = "send"
             /\ msg_out' = ftext.result
             /\ msg_out'.type = VariantOf(ftext.method)
       /\ (ReadsFrame /\ FrameKind(ftext) = "bad_shape") =>
             /\ flog' = "warn"
             /\ published' = published
             /\ message_queue' = message_queue
             /\ mpc' = "read"]_<< mpc, frames_left, flog >>

C21_Witness ==
    /\ FrameKind(ftext) = "bad_shape"
    /\ frames_left < MaxFrames
    /\ mpc = "read"
    /\ flog = NONE
    /\ published["feed"] = << >>
    /\ message_queue = << >>

(***************************************************************************)
(* C22.  Claimed: when the orchestrator takes a PoolCreated event from the *)
(* bus it forwards it to the notification collaborator and, if the         *)
(* auto-action policy is enabled, invokes the trade-execution collaborator *)
(* for the configured wallets: handling a PoolUpdate makes one Telegram    *)
(* call and, with auto_sell set and a wallet configured, enters the snipe  *)
(* loop.                                                                   *)
(***************************************************************************)
C22_PoolCreatedNotifiedAndTraded ==
    [][(opc = "dispatch" /\ omsg.type = "PoolUpdate") =>
          /\ Len(tg_log') = Len(tg_log) + 1
          /\ (auto_sell /\ wallets > 0) => opc' = "snipe"]_<< opc >>

\* C22, as the code has it: the orchestrator only logs a PoolCreated event it
\* takes from the bus, with one info line; it makes no Telegram call and no
\* snipe_token call for it, whatever auto_sell, and is back at
\* receive_message.
C22_PoolCreatedOnlyLogged ==
    [][(opc = "dispatch" /\ omsg.type = "PoolUpdate") =>
          /\ olog' = << "info" >>
          /\ opc' = "recv"
          /\ trade_log' = << >>
          /\ tg_log' = tg_log]_<< opc >>

\* A PoolUpdate has been handled with auto_sell set and every wallet
\* configured.
C22_Witness ==
    /\ opc = "recv"
    /\ omsg # NOTHING
    /\ omsg.type = "PoolUpdate"
    /\ auto_sell
    /\ wallets = MaxWallets
    /\ olog = << "info" >>
    /\ trade_log = << >>

(***************************************************************************)
(* C23.  Claimed: the orchestrator only forwards a TokenListed or a        *)
(* PriceChanged event informationally and never invokes the                *)
(* trade-execution collaborator for such an event, whatever the            *)
(* auto-action setting: it is never in the snipe loop, or taken down by    *)
(* it, with such an event at hand.                                         *)
(***************************************************************************)
C23_NoTradeOnListingOrPrice ==
    opc \in {"snipe", "panicked"} => omsg.type \notin {"TokenListing", "PriceUpdate"}

\* C23, as the code has it: a PriceChanged event is only logged, whatever
\* auto_sell; a TokenListed event is logged and, when auto_sell is set and
\* there is a wallet, leads into the snipe loop; snipe_token is called for no
\* other event and never with auto_sell unset.
C23_TradeOnlyOnListing ==
    [][/\ (opc = "dispatch" /\ omsg.type = "PriceUpdate") =>
             /\ olog' = << "info" >>
             /\ opc' = "recv"
             /\ trade_log' = << >>
       /\ (opc = "dispatch" /\ omsg.type = "TokenListing") =>
             /\ olog' = << "info" >>
             /\ opc' = IF auto_sell /\ wallets > 0 THEN "snipe" ELSE "recv"
       /\ Len(trade_log') > Len(trade_log) =>
             /\ omsg.type = "TokenListing"
             /\ auto_sell]_<< opc, trade_log >>

\* A TokenListing has been handled with auto_sell set: snipe_token was called
\* for every wallet.
C23_Witness ==
    /\ opc = "recv"
    /\ omsg # NOTHING
    /\ omsg.type = "TokenListing"
    /\ auto_sell
    /\ Len(trade_log) = MaxWallets

(***************************************************************************)
(* C24.  A trade failure for one wallet is logged and the orchestrator     *)
(* still attempts the trade for every remaining wallet and still processes *)
(* the subsequent events: a snipe_token call that returns Err adds one     *)
(* error line and is followed by the call for the next wallet, or, after   *)
(* the last wallet, by receive_message; and a snipe loop that is left for  *)
(* receive_message has called snipe_token once for every wallet.           *)
(***************************************************************************)
C24_FailureLoggedLoopGoesOn ==
    [][/\ (/\ opc = "snipe"
           /\ Len(trade_log') = Len(trade_log) + 1
           /\ trade_log'[Len(trade_log')] = "Err") =>
             /\ olog' = Append(olog, "error")
             /\ wallet_index' = wallet_index + 1
             /\ opc' = IF wallet_index + 1 < wallets THEN "snipe" ELSE "recv"
       /\ (opc = "snipe" /\ opc' = "recv") =>
             /\ Len(trade_log') = wallets
             /\ Len(olog') = 1 + wallets]_<< opc, trade_log >>

\* The trade failed for every one of the wallets, each failure was logged,
\* and the orchestrator is at receive_message again.
C24_Witness ==
    /\ opc = "recv"
    /\ wallets = MaxWallets
    /\ trade_log = [i \in 1 .. MaxWallets |-> "Err"]
    /\ olog = << "info" >> \o [i \in 1 .. MaxWallets |-> "error"]

(***************************************************************************)
(* C25.  A trade attempt that reaches an unimplemented trading primitive   *)
(* ends as a normal failure result that the orchestrator logs, and never   *)
(* crashes or aborts the orchestrator task: every snipe_token call of the  *)
(* snipe loop returns Err, one error line is logged for it, and the        *)
(* orchestrator goes on with the next wallet or the next event.            *)
(***************************************************************************)
C25_UnimplementedIsFailure ==
    [][opc = "snipe" =>
          /\ trade_log' = Append(trade_log, "Err")
          /\ olog' = Append(olog, "error")
          /\ opc' \in {"snipe", "recv"}]_<< opc, trade_log >>

\* A wallet with the balance for the trade: snipe_token got past the balance
\* check, reached unimplemented!() and the panic took the orchestrator down,
\* with no line logged for the attempt and an event still on the bus.
C25_Witness ==
    /\ opc = "panicked"
    /\ trade_log = << "Panic" >>
    /\ olog = << "info" >>
    /\ message_queue # << >>

(***************************************************************************)
(* C26.  The orchestrator loop exits only when the bus is permanently      *)
(* closed, and it does exit once all producers are gone: it has not left   *)
(* the loop while a producer task is alive, and when the last producer     *)
(* task has ended and the queue is drained, receive_message yields the     *)
(* closed bus, which ends the loop.                                        *)
(***************************************************************************)
C26_ExitsWhenProducersGone ==
    /\ opc = "done" => spawned \ Ended = {}
    /\ (/\ opc = "recv"
        /\ ORCHESTRATOR \in rx_guard
        /\ message_queue = << >>
        /\ spawned \ Ended = {}) => BusClosed

\* The bot is started with enable_raydium unset: start_monitoring has spawned
\* no producer, and the orchestrator waits in recv() on an empty bus that the
\* manager's own Sender keeps open.
C26_Witness ==
    /\ ~enable_raydium
    /\ spawned \ Ended = {}
    /\ opc = "recv"
    /\ ORCHESTRATOR \in rx_guard
    /\ message_queue = << >>
    /\ LiveSenders = {MANAGER}

(***************************************************************************)
(* C27.  Once the bot is started, the chain log watcher and every feed     *)
(* monitor registered with the manager each run as a producer task of      *)
(* their own: past the start, a task has been spawned for the watcher and  *)
(* for every registered monitor.                                           *)
(***************************************************************************)
C27_EveryProducerSpawned ==
    (opc # "start" /\ enable_raydium) => ({"watcher"} \cup Registered) \subseteq spawned

\* The bot is started with enable_raydium set: the watcher runs and has
\* published, the monitor that new() registered has no task.
C27_Witness ==
    /\ opc # "start"
    /\ Registered = {"feed"}
    /\ spawned = {"watcher"}
    /\ published["watcher"] # << >>
    /\ mpc = "start"

C28_Waits(p) ==
    \/ p = "watcher" /\ wpc \in {"subscribe", "recv", "retry_sleep", "reconnect_sleep"}
    \/ p = "watcher" /\ wpc = "send" /\ ~CanSend
    \/ p = "feed" /\ mpc \in {"connect", "handshake", "read", "reconnect_sleep"}
    \/ p = "feed" /\ mpc = "send" /\ ~CanSend

C28_WaitSuspendsOnlyCaller ==
    \A p \in spawned : C28_Waits(p) =>
        \A q \in spawned \ {p} : Runnable(q)

\* One worker thread: the watcher sits in receiver.recv() for the next log
\* entry while the feed monitor, connected and with a frame to read, has no
\* thread to be polled on.
C28_Witness ==
    /\ worker_threads = 1
    /\ wpc = "recv"
    /\ mpc = "read"
    /\ frames_left > 0
    /\ ~Runnable("feed")

(***************************************************************************)
(* C30.  A failure of the notification collaborator for one pool event is  *)
(* reported in the log and is never propagated as a pipeline fault: a      *)
(* failed Telegram call leaves one error line, and the watcher goes on to  *)
(* the next event of the transaction, or after the last one to             *)
(* receiver.recv() for the later log entries, none of which is lost.       *)
(***************************************************************************)
C30_NotifyFailureLogged ==
    [][(/\ wpc = "notify"
        /\ Len(tg_log') = Len(tg_log) + 1
        /\ ~tg_log'[Len(tg_log')].ok) =>
          /\ tg_log'[Len(tg_log')].line = "error"
          /\ pull_updates' = Tail(pull_updates)
          /\ wpc' = IF Tail(pull_updates) # << >> THEN "send" ELSE "recv"
          /\ logs_left' = logs_left
          /\ published' = published]_<< wpc, logs_left >>

\* The Telegram call failed for the first event; the watcher has since made
\* the call for the second event of the transaction and for an event of a
\* later log entry, and has published all of them.
C30_Witness ==
    /\ Len(tg_log) > MaxInstr
    /\ ~tg_log[1].ok
    /\ tg_log[1].line = "error"
    /\ Len(published["watcher"]) = Len(tg_log)
    /\ wpc = "recv"

(***************************************************************************)
(* C31.  In Streaming, a log entry none of whose log lines contains the    *)
(* marker is discarded: taking it leaves the watcher at receiver.recv()    *)
(* with nothing published and no Telegram call, and until the next entry   *)
(* is taken no get_transaction call, no decode and no send is made for it  *)
(* and only its two debug lines are logged.                                *)
(***************************************************************************)
C31_NoMarkerDiscarded ==
    /\ []((seen_entry # NOTHING /\ ~seen_entry.has_marker) =>
            /\ fetch_log = << >>
            /\ decode_log = 0
            /\ sent_log = 0
            /\ log_info = NOTHING
            /\ pull_updates = << >>
            /\ wpc \in {"recv", "reconnect_sleep", "subscribe"}
            /\ wlog = << "debug", "debug" >>)
    /\ [][(wpc = "recv" /\ logs_left' < logs_left /\ ~seen_entry'.has_marker) =>
            /\ wpc' = "recv"
            /\ published' = published
            /\ message_queue' = message_queue
            /\ tg_log' = tg_log]_<< wpc, logs_left >>

\* After an entry whose events were published, an entry of a transaction that
\* creates two pools, but without the marker, has been taken and dropped.
C31_Witness ==
    /\ seen_entry # NOTHING
    /\ ~seen_entry.has_marker
    /\ seen_entry.signature = "sigTwoPools"
    /\ wpc = "recv"
    /\ logs_left = 0
    /\ published["watcher"] # << >>
    /\ wlog = << "debug", "debug" >>

(***************************************************************************)
(* C32.  A log entry that contains the marker but whose signature cannot   *)
(* be parsed is logged and discarded: taking it logs an error line and     *)
(* leaves the watcher at receiver.recv(), ready for the next entry, with   *)
(* nothing published, and until the next entry is taken no                 *)
(* get_transaction call, no decode and no send is made for it.             *)
(***************************************************************************)
C32_BadSignatureDiscarded ==
    /\ []((/\ seen_entry # NOTHING
           /\ seen_entry.has_marker
           /\ seen_entry.signature = BAD_SIGNATURE) =>
            /\ fetch_log = << >>
            /\ decode_log = 0
            /\ sent_log = 0
            /\ log_info = NOTHING
            /\ pull_updates = << >>
            /\ wpc \in {"recv", "reconnect_sleep", "subscribe"}
            /\ wlog = << "info", "error" >>)
    /\ [][(/\ wpc = "recv"
           /\ logs_left' < logs_left
           /\ seen_entry'.has_marker
           /\ seen_entry'.signature = BAD_SIGNATURE) =>
            /\ wpc' = "recv"
            /\ logs_left' = logs_left - 1
            /\ published' = published
            /\ message_queue' = message_queue
            /\ tg_log' = tg_log]_<< wpc, logs_left >>

\* An entry with the marker and an unparsable signature has been taken as the
\* first entry and dropped with an error line; an entry is still to come.
C32_Witness ==
    /\ seen_entry # NOTHING
    /\ seen_entry.has_marker
    /\ seen_entry.signature = BAD_SIGNATURE
    /\ wpc = "recv"
    /\ logs_left = MaxLogs - 1
    /\ wlog = << "info", "error" >>
    /\ ENABLED WatcherRecvLogged

(***************************************************************************)
(* C33.  When decoding a fetched transaction fails with a decode error,    *)
(* the watcher logs it, publishes no event for that log entry, and         *)
(* continues with the next log entry without leaving Streaming: the fetch  *)
(* of a transaction that decode_transaction answers with Err logs an error *)
(* line and leaves the watcher at receiver.recv() with no event to send    *)
(* and the entries still to come untouched.                                *)
(***************************************************************************)
C33_DecodeFails ==
    /\ wpc = "fetch"
    /\ Len(fetch_log') = Len(fetch_log) + 1
    /\ fetch_log'[Len(fetch_log')] = "ok"
    /\ DecodeStatus(Chain[log_info.signature]) = "Err"

C33_DecodeErrorDropped ==
    [][C33_DecodeFails =>
          /\ decode_log' = decode_log + 1
          /\ wlog' = Append(wlog, "error")
          /\ wpc' = "recv"
          /\ log_info' = NOTHING
          /\ pull_updates' = << >>
          /\ sent_log' = 0
          /\ published' = published
          /\ message_queue' = message_queue
          /\ tg_log' = tg_log
          /\ logs_left' = logs_left]_<< wpc, fetch_log >>

\* The transaction of the first entry, in a binary encoding, was fetched at
\* the second attempt and failed to decode; the watcher is at recv() with an
\* entry to come and has published nothing.
C33_Witness ==
    /\ seen_entry # NOTHING
    /\ seen_entry.signature = "sigBinary"
    /\ fetch_log = << "err", "ok" >>
    /\ decode_log = 1
    /\ wlog = << "info", "info", "warn", "error" >>
    /\ wpc = "recv"
    /\ logs_left = MaxLogs - 1
    /\ published["watcher"] = << >>

(***************************************************************************)
(* C34.  No operation of the bot, stop() included, ever terminates a       *)
(* producer task or the orchestrator loop, and stop() changes only the     *)
(* is_running and active_monitors fields: the step that clears is_running  *)
(* leaves every task, the bus and every other field as they were; no       *)
(* spawned task has ended and the orchestrator has not left its loop; a    *)
(* watcher that was about to publish when stop() returned still can; and   *)
(* what is published after stop() is still received.                       *)
(***************************************************************************)
C34_StopChangesFlagsOnly ==
    /\ [][(state.is_running /\ ~state'.is_running) =>
            /\ state' = [state EXCEPT !.is_running = FALSE, !.active_monitors = 0]
            /\ UNCHANGED << now, watcherVars, busVars, configVars, orchVars >>]_state
    /\ [](Ended = {} /\ opc \notin {"done", "panicked"})
    /\ []((stop_mark # << >> /\ wpc = "send" /\ CanSend) =>
            ENABLED (Running("watcher") /\ WatcherSend))
    /\ \A n \in 1 .. MaxLogs * MaxInstr :
          (stop_mark # << >> /\ Len(published["watcher"]) >= n) ~>
              (Len(received["watcher"]) >= n)

\* stop() returned with nothing published yet; since then the watcher has
\* published the events of two log entries and the orchestrator has taken
\* them.
C34_Witness ==
    /\ ~state.is_running
    /\ state.active_monitors = 0
    /\ stop_mark = << 0, 0 >>
    /\ Len(published["watcher"]) > MaxInstr
    /\ received["watcher"] = published["watcher"]
    /\ opc = "recv"

(***************************************************************************)
(* C35.  While a DexWebSocketManager exists the bus always has at least    *)
(* one live sender, the manager's own, so receive_message never reports    *)
(* the bus as closed and the orchestrator loop never reaches its exit,     *)
(* even after every producer task has ended.                               *)
(***************************************************************************)
C35_ManagerKeepsBusOpen ==
    /\ MANAGER \in LiveSenders
    /\ ~BusClosed
    /\ opc # "done"

\* The one producer task has ended (the feed monitor returned at its start);
\* the orchestrator holds the receiver and waits in recv() on the empty bus.
C35_Witness ==
    /\ spawned = {"feed"}
    /\ Ended = {"feed"}
    /\ opc = "recv"
    /\ ORCHESTRATOR \in rx_guard
    /\ message_queue = << >>
    /\ LiveSenders = {MANAGER}

(***************************************************************************)
(* C36.  For each PoolUpdate event decoded by the watcher, the watcher     *)
(* itself sends exactly one pool notification, after its publish attempt   *)
(* for that event has completed and whether or not that publish succeeded, *)
(* and the next event of the same transaction is not published before the  *)
(* notification attempt has finished: a completed send, failed or not,     *)
(* leads to the Telegram call with the same event at hand; the call is     *)
(* made once, publishes nothing and only then gives way to the next event; *)
(* and no Telegram call is made anywhere else.                             *)
(***************************************************************************)
C36_NotifyAfterEachPublish ==
    /\ [][/\ (wpc = "send" /\ sent_log' = sent_log + 1) =>
                /\ wpc' = "notify"
                /\ pull_updates' = pull_updates
                /\ tg_log' = tg_log
          /\ (wpc = "notify" /\ wpc' # "notify") =>
                /\ Len(tg_log') = Len(tg_log) + 1
                /\ pull_updates' = Tail(pull_updates)
                /\ published' = published
                /\ sent_log' = sent_log
                /\ wpc' = IF Tail(pull_updates) # << >> THEN "send" ELSE "recv"
          /\ (tg_log' # tg_log) => wpc = "notify"]_<< wpc, sent_log, tg_log >>
    /\ [](ReceiverClosed \/
            Len(published["watcher"]) = Len(tg_log) + (IF wpc = "notify" THEN 1 ELSE 0))

\* The receiver is gone: both sends of a transaction with two events failed,
\* and the Telegram call was still made once for each, the second after the
\* first.
C36_Witness ==
    /\ ReceiverClosed
    /\ sent_log = MaxInstr
    /\ err_log = MaxInstr
    /\ Len(tg_log) = MaxInstr
    /\ published["watcher"] = << >>
    /\ wpc = "recv"

(***************************************************************************)
(* C37.  In every reachable state of the bot successful_trades equals      *)
(* total_trades and failed_trades is 0, whatever snipe_token and           *)
(* sell_token calls were made, and a snipe_token call that returns an      *)
(* error leaves every field of SniperState unchanged.                      *)
(***************************************************************************)
C37_CountersAgree ==
    /\ [](/\ state.successful_trades = state.total_trades
          /\ state.failed_trades = 0)
    /\ [][(/\ Len(trade_log') = Len(trade_log) + 1
           /\ trade_log'[Len(trade_log')] = [op |-> "snipe", result |-> "Err"]) =>
             state' = state]_<< trade_log, state >>

\* MaxCalls calls were made: a snipe_token and a sell_token that returned
\* Err among them, the last a snipe_token that did not return.
C37_Witness ==
    /\ Len(trade_log) = MaxCalls
    /\ [op |-> "snipe", result |-> "Err"] \in {trade_log[k] : k \in 1 .. MaxCalls - 1}
    /\ [op |-> "sell", result |-> "Err"] \in {trade_log[k] : k \in 1 .. MaxCalls - 1}
    /\ trade_log[MaxCalls] = [op |-> "snipe", result |-> "Panic"]
    /\ state = InitialState

(***************************************************************************)
(* C38.  A feed monitor whose URL does not parse returns from              *)
(* start_monitoring before any connect attempt and never retries: the      *)
(* monitor leaves its start either for its first connect attempt or for    *)
(* good, without a sleep, it returns from nowhere else, and once returned  *)
(* nothing of it changes again; its return touches neither the watcher nor *)
(* the bus, and the watcher stays alive afterwards: it has a step to take  *)
(* unless it is waiting in send for room on the full bus.                  *)
(***************************************************************************)
C38_WatcherStep ==
    \/ WatcherSubscribe
    \/ WatcherRecv
    \/ WatcherStreamEnd
    \/ WatcherFetch
    \/ WatcherRetrySleep
    \/ WatcherSend
    \/ WatcherNotify
    \/ WatcherReconnectSleep

C38_BadUrlEndsMonitor ==
    /\ [][/\ (mpc = "start" /\ mpc' # "start") =>
                /\ mpc' \in {"connect", "returned"}
                /\ UNCHANGED << msg_out, frames_left, mon_sleep_ms, flog >>
          /\ (mpc # "returned" /\ mpc' = "returned") =>
                /\ mpc = "start"
                /\ UNCHANGED << watcherVars, busVars >>
          /\ (mpc = "returned") => UNCHANGED monitorVars]_vars
    /\ [](mpc = "returned" =>
            /\ wpc \notin {"returned", "panicked"}
            /\ \/ ENABLED C38_WatcherStep
               \/ wpc = "send" /\ ~ReceiverClosed /\ ~CanSend)

\* The monitor returned at its start, with no frame read and no sleep; the
\* watcher has published an event and is about to publish the next.
C38_Witness ==
    /\ mpc = "returned"
    /\ frames_left = MaxFrames
    /\ mon_sleep_ms = 0
    /\ published["feed"] = << >>
    /\ Len(published["watcher"]) > 0
    /\ wpc = "send"
    /\ ENABLED WatcherSend

=============================================================================
